---- MODULE Spec2Model ----
(***************************************************************************)
(* A model of the Google Workspace assessment scripts.                     *)
(*                                                                         *)
(*   SpecGrant    add_admin_to_shared_drives.py: main, the drive listing   *)
(*                and the permission grant, against a remote permission    *)
(*                store.                                                   *)
(*   SpecResolve  Google_Users_Assessment.py: the resolvers of the usage   *)
(*                record and get_user_workspace_stats, applied to the      *)
(*                usage reports of a bounded family.                       *)
(*   SpecCollect  Google_Users_Assessment.py: collect_workspace_stats, one *)
(*                step per remote call, against a paged user listing; and  *)
(*                the drive listing of add_admin_to_shared_drives.py.      *)
(*   SpecLoops    the `while True` listing loops of the five scripts, one  *)
(*                step per iteration, under weak fairness of the function  *)
(*                that runs.                                               *)
(*   SpecExport   the table exports of google_shared_drive_assessment.py,  *)
(*                Google_Workspace_Assessment.py and                       *)
(*                advanced_shared_drive_finder.py, applied to bounded      *)
(*                inputs and remote answers.                               *)
(*                                                                         *)
(* The remote service is the environment: every remote call either         *)
(* returns or raises HttpError, chosen nondeterministically.               *)
(***************************************************************************)
EXTENDS Integers, Sequences, FiniteSets, TLC

VARIABLES
    perms,      \* remote: drive id -> the drive's permission list, in listing order
    run,        \* add_admin_to_shared_drives.main: its arguments, locals and position
    lastCall,   \* the latest add_admin_to_drive call: arguments, outcome, calls issued
    granted,    \* drive id -> the (admin, role) its latest call granted, if it did
    report,     \* remote: the parameters of the user's usage report, in order
    res,        \* the operation of Google_Users_Assessment applied last, and its outcome
    svc,        \* remote: the pages of the user listing and the calls that raise
    col,        \* a collection run: its arguments, locals, position and files written
    loop,       \* a listing loop: its function, the remote's listing, locals, position
    job,        \* an export: its function, its arguments and what the remote answers
    out         \* the exports applied to the job, and what each returned

grantVars == <<perms, run, lastCall, granted>>
resolveVars == <<report, res>>
collectVars == <<svc, col>>
listingVars == <<loop>>
exportVars == <<job, out>>

vars == <<perms, run, lastCall, granted, report, res, svc, col, loop, job, out>>

----------------------------------------------------------------------------
(* Strings: str.lower() and the substring test `x in s`.                   *)

UpperCase == <<"A","B","C","D","E","F","G","H","I","J","K","L","M",
               "N","O","P","Q","R","S","T","U","V","W","X","Y","Z">>
LowerCase == <<"a","b","c","d","e","f","g","h","i","j","k","l","m",
               "n","o","p","q","r","s","t","u","v","w","x","y","z">>

LowerChar(c) ==
    IF \E i \in 1..26 : UpperCase[i] = c
    THEN LowerCase[CHOOSE i \in 1..26 : UpperCase[i] = c]
    ELSE c

RECURSIVE Lower(_)
Lower(s) ==
    IF s = "" THEN ""
    ELSE LowerChar(SubSeq(s, 1, 1)) \o Lower(SubSeq(s, 2, Len(s)))

Contains(s, m) ==
    \E i \in 1..(Len(s) - Len(m) + 1) : SubSeq(s, i, i + Len(m) - 1) = m

----------------------------------------------------------------------------
(* add_admin_to_shared_drives.py                                           *)

MaxPerms == 2       \* permissions a drive holds initially
MaxDrivePages == 3  \* pages the drive listing is served in

Drives == {"d1", "d2"}

\* --role choices (argparse); the model grants two of them
Roles == {"manager", "organizer", "fileOrganizer", "writer", "commenter", "reader"}
GrantRoles == {"manager", "reader"}

\* --admin-email values, and the emailAddress fields the remote reports
\* ("" is a permission without emailAddress, e.g. a domain permission)
AdminEmails == {"admin@corp.com"}
RemoteEmails == {"", "Admin@Corp.com"}

\* The drive listings the remote serves: a sequence of pages, page k carrying
\* nextPageToken k+1 unless it is the last.
DrivePagings ==
    { <<>>,
      << <<"d1", "d2">> >>,
      << <<"d1">>, <<"d2">> >>,
      << <<"d2">>, <<>>, <<"d1">> >> }

\* get_all_shared_drives: the page loop; the request numbered failAt raises
\* HttpError (0: none does).
RECURSIVE drives_loop(_, _, _, _, _)
drives_loop(pages, failAt, page_token, nreq, shared_drives) ==
    IF nreq = failAt THEN shared_drives                      \* except HttpError: break
    ELSE LET current_drives == IF page_token <= Len(pages)
                               THEN pages[page_token] ELSE <<>>
             next_token == IF page_token < Len(pages) THEN page_token + 1 ELSE 0
         IN  IF current_drives = <<>> THEN shared_drives    \* if not current_drives: break
             ELSE IF next_token = 0 THEN shared_drives \o current_drives
             ELSE drives_loop(pages, failAt, next_token, nreq + 1,
                              shared_drives \o current_drives)

get_all_shared_drives(pages, failAt) == drives_loop(pages, failAt, 1, 1, <<>>)

\* str.lower() of every address of the model, computed once
LowerEmail == [e \in RemoteEmails \cup AdminEmails |-> Lower(e)]

\* permission.get('emailAddress', '').lower() == admin_email.lower()
MatchesAdmin(permission, admin_email) ==
    LowerEmail[permission.emailAddress] = LowerEmail[admin_email]

\* the last listed permission of the admin is reported instead of the first
check_admin_permissions_last(permissions, admin_email, listFails) ==
    IF listFails THEN [has |-> FALSE, id |-> 0, role |-> "None"]
    ELSE IF \E k \in 1..Len(permissions) : MatchesAdmin(permissions[k], admin_email)
    THEN LET k == CHOOSE j \in 1..Len(permissions) :
                     /\ MatchesAdmin(permissions[j], admin_email)
                     /\ \A h \in (j + 1)..Len(permissions) :
                           ~MatchesAdmin(permissions[h], admin_email)
         IN  [has |-> TRUE, id |-> permissions[k].id, role |-> permissions[k].role]
    ELSE [has |-> FALSE, id |-> 0, role |-> "None"]

\* check_admin_permissions: (has_permissions, permission_id, current_role) from
\* the first listed permission of the admin; (False, None, None) when there is
\* none and also when the listing raises HttpError.
check_admin_permissions(permissions, admin_email, listFails) ==
    IF listFails THEN [has |-> FALSE, id |-> 0, role |-> "None"]
    ELSE IF \E k \in 1..Len(permissions) : MatchesAdmin(permissions[k], admin_email)
    THEN LET k == CHOOSE j \in 1..Len(permissions) :
                     /\ MatchesAdmin(permissions[j], admin_email)
                     /\ \A h \in 1..(j - 1) : ~MatchesAdmin(permissions[h], admin_email)
         IN  [has |-> TRUE, id |-> permissions[k].id, role |-> permissions[k].role]
    ELSE [has |-> FALSE, id |-> 0, role |-> "None"]

\* The remote's permissions().update: the role of the permission with that id.
remote_update(permissions, permission_id, role) ==
    [k \in 1..Len(permissions) |->
        IF permissions[k].id = permission_id
        THEN [permissions[k] EXCEPT !.role = role]
        ELSE permissions[k]]

\* The remote's permissions().create of a user permission: a principal holds one
\* permission per drive, so creating for a principal that holds one sets its role.
remote_create(permissions, admin_email, role) ==
    IF \E k \in 1..Len(permissions) : MatchesAdmin(permissions[k], admin_email)
    THEN [k \in 1..Len(permissions) |->
            IF MatchesAdmin(permissions[k], admin_email)
            THEN [permissions[k] EXCEPT !.role = role]
            ELSE permissions[k]]
    ELSE Append(permissions, [id |-> Len(permissions) + 1,
                              emailAddress |-> admin_email, role |-> role])

HoldsPermission(permissions, admin_email) ==
    \E k \in 1..Len(permissions) : MatchesAdmin(permissions[k], admin_email)

\* The body of add_admin_to_drive, with the dry-run test of the update branch
\* and of the create branch as separate parameters.
grant(permissions, drive_id, admin_email, role, dry_update, dry_create, listFails, mutFails) ==
    LET chk == check_admin_permissions(permissions, admin_email, listFails)
        none == [ok |-> TRUE, branch |-> "already", issued |-> <<>>,
                 perms |-> permissions]
    IN  IF chk.has
        THEN IF chk.role = role THEN none
             ELSE IF dry_update THEN [none EXCEPT !.branch = "dry_update"]
             ELSE LET call == [op |-> "update", fileId |-> drive_id,
                               permissionId |-> chk.id, emailAddress |-> "",
                               role |-> role,
                               held |-> HoldsPermission(permissions, admin_email)]
                  IN  IF mutFails
                      THEN [ok |-> FALSE, branch |-> "update_error",
                            issued |-> <<call>>, perms |-> permissions]
                      ELSE [ok |-> TRUE, branch |-> "update", issued |-> <<call>>,
                            perms |-> remote_update(permissions, chk.id, role)]
        ELSE IF dry_create THEN [none EXCEPT !.branch = "dry_create"]
             ELSE LET call == [op |-> "create", fileId |-> drive_id,
                               permissionId |-> 0, emailAddress |-> admin_email,
                               role |-> role,
                               held |-> HoldsPermission(permissions, admin_email)]
                  IN  IF mutFails
                      THEN [ok |-> FALSE, branch |-> "create_error",
                            issued |-> <<call>>, perms |-> permissions]
                      ELSE [ok |-> TRUE, branch |-> "create", issued |-> <<call>>,
                            perms |-> remote_create(permissions, admin_email, role)]

\* A slip: the create branch without its dry-run test.
add_admin_to_drive_no_dry_create(permissions, drive_id, admin_email, role, dry_run, listFails, mutFails) ==
    grant(permissions, drive_id, admin_email, role, dry_run, FALSE,
          listFails, mutFails)

add_admin_to_drive(permissions, drive_id, admin_email, role, dry_run, listFails, mutFails) ==
    grant(permissions, drive_id, admin_email, role, dry_run, dry_run,
          listFails, mutFails)

NoCall == [drive_id |-> "", admin_email |-> "", role |-> "None", dry_run |-> FALSE,
           ok |-> FALSE, branch |-> "none", issued |-> <<>>, changed |-> FALSE,
           listFailed |-> FALSE, repeat |-> FALSE]

NoGrant == [admin_email |-> "", role |-> "None"]

IdleRun == [phase |-> "idle", admin_email |-> "", role |-> "None", dry_run |-> FALSE,
            shared_drives |-> <<>>, i |-> 0, success_count |-> 0, failure_count |-> 0]

\* The permissions a drive may hold initially: one without emailAddress, and
\* the admin's (reported in another case) with either role.
RemotePermissions ==
    { [emailAddress |-> "", role |-> "organizer"] }
    \cup { [emailAddress |-> e, role |-> r] : e \in RemoteEmails \ {""}, r \in GrantRoles }

\* Initial permission lists: ids are the positions.
\* The user listing and the collection run before any run starts.
IdleService == [sizes |-> <<0>>, failAt |-> 0, dir |-> {}, rep |-> {}]
IdleCollect ==
    [phase |-> "idle", op |-> "none", max_users |-> 0, page_token |-> 0,
     requests |-> 0, calls |-> 0, page |-> 0, i |-> 0, stats_list |-> <<>>,
     user_count |-> 0,
     saved |-> <<>>, returned |-> <<>>, outcome |-> "none",
     drive_pages |-> <<>>, drive_failAt |-> 0]
\* No export has been asked for, none has been applied.
IdleJob == [fn |-> "none"]
NoOutput == [op |-> "none"]
\* No listing loop has been entered.
IdleLoop ==
    [phase |-> "idle", fn |-> "none", pages |-> <<>>, served |-> <<>>,
     page_token |-> 0, collected |-> <<>>, retried |-> 0, outcome |-> "none"]

InitialPermLists ==
    UNION { { [k \in 1..n |-> [id |-> k, emailAddress |-> f[k].emailAddress,
                               role |-> f[k].role]] :
                f \in [1..n -> RemotePermissions] } :
            n \in 0..MaxPerms }

GrantInit ==
    /\ perms \in [Drives -> InitialPermLists]
    /\ run = IdleRun
    /\ lastCall = NoCall
    /\ granted = [d \in Drives |-> NoGrant]
    /\ report = <<>> /\ res = [op |-> "none"]
    /\ svc = IdleService /\ col = IdleCollect /\ loop = IdleLoop
    /\ job = IdleJob /\ out = NoOutput

\* main up to the loop: parse the arguments, list the drives; return when the
\* listing is empty.
MainStart ==
    /\ run.phase \in {"idle", "done"}
    /\ \E admin_email \in AdminEmails, role \in GrantRoles, dry_run \in BOOLEAN,
          pages \in DrivePagings, failAt \in 0..MaxDrivePages :
         LET shared_drives == get_all_shared_drives(pages, failAt)
         IN  run' = IF shared_drives = <<>>
                    THEN [IdleRun EXCEPT !.phase = "done"]
                    ELSE [phase |-> "processing", admin_email |-> admin_email,
                          role |-> role, dry_run |-> dry_run,
                          shared_drives |-> shared_drives, i |-> 1,
                          success_count |-> 0, failure_count |-> 0]
    /\ lastCall' = NoCall
    /\ UNCHANGED <<perms, granted, report, res, svc, col, loop, job, out>>

\* One iteration of main's loop over shared_drives.
ProcessDrive ==
    /\ run.phase = "processing"
    /\ run.i <= Len(run.shared_drives)
    /\ \E listFails \in BOOLEAN, mutFails \in BOOLEAN :
         LET drive_id == run.shared_drives[run.i]
             r == add_admin_to_drive(perms[drive_id], drive_id, run.admin_email,
                                     run.role, run.dry_run, listFails, mutFails)
             g == [admin_email |-> run.admin_email, role |-> run.role]
         IN  /\ perms' = [perms EXCEPT ![drive_id] = r.perms]
             /\ run' = [run EXCEPT
                          !.i = @ + 1,
                          !.success_count = IF r.ok THEN @ + 1 ELSE @,
                          !.failure_count = IF r.ok THEN @ ELSE @ + 1]
             /\ lastCall' =
                    [drive_id |-> drive_id, admin_email |-> run.admin_email,
                     role |-> run.role, dry_run |-> run.dry_run, ok |-> r.ok,
                     branch |-> r.branch, issued |-> r.issued,
                     changed |-> r.perms # perms[drive_id],
                     listFailed |-> listFails,
                     repeat |-> ~run.dry_run /\ granted[drive_id] = g]
             /\ granted' = [granted EXCEPT ![drive_id] =
                    IF run.dry_run THEN @ ELSE IF r.ok THEN g ELSE NoGrant]
    /\ UNCHANGED <<report, res, svc, col, loop, job, out>>

\* main after the loop: the summary; the process ends and its locals with it.
MainSummary ==
    /\ run.phase = "processing"
    /\ run.i > Len(run.shared_drives)
    /\ run' = [IdleRun EXCEPT !.phase = "done"]
    /\ UNCHANGED <<perms, lastCall, granted, report, res, svc, col, loop, job, out>>

GrantNext == MainStart \/ ProcessDrive \/ MainSummary

SpecGrant == GrantInit /\ [][GrantNext]_vars

\* C1: a call of add_admin_to_drive with dry_run=True issues no
\* permissions().create and no permissions().update call and leaves the drive's
\* permission list as it was, whatever the drive's remote state and whether or
\* not the permission listing fails.
DryRunNeverMutates ==
    lastCall.dry_run => lastCall.issued = <<>> /\ ~lastCall.changed

\* A dry run has processed its second drive, on which the admin holds another
\* role than the one to grant.
DryRunWitness ==
    /\ lastCall.dry_run
    /\ lastCall.branch = "dry_update"
    /\ run.phase = "processing" /\ run.i = 3

\* C2 (as claimed): a call that repeats, against the state it left, a
\* non-dry-run call that returned True issues no call, changes nothing and
\* returns through the 'already has role' branch.
GrantIdempotent ==
    lastCall.repeat =>
        lastCall.branch = "already" /\ lastCall.issued = <<>> /\ ~lastCall.changed

\* C3 (as claimed): permissions().create is issued only when the principal
\* holds no permission on the drive at the time of the call.
CreateOnlyWithoutPermission ==
    \A k \in 1..Len(lastCall.issued) :
        lastCall.issued[k].op = "create" => ~lastCall.issued[k].held

----------------------------------------------------------------------------
(* Google_Users_Assessment.py: the usage record and its values             *)

MaxParams == 3      \* parameters of one usage report

\* A parameter value as get_all_parameters stores it: the int of an intValue,
\* the text of a stringValue ("5", "7.0", "abc"), a boolValue, or None.
IntVal(n) == [kind |-> "int", n |-> n]
NumStr(n) == [kind |-> "numstr", n |-> n]       \* str(n), e.g. "5"
FloatStr(n) == [kind |-> "floatstr", n |-> n]   \* str(float(n)), e.g. "7.0"
BadStr == [kind |-> "badstr", n |-> 0]          \* "abc"
NoneVal == [kind |-> "none", n |-> 0]
BoolVal(b) == [kind |-> "bool", n |-> IF b THEN 1 ELSE 0]

\* param.get('name', '') of an entry whose name is null: the key None, on which
\* .lower() raises AttributeError.
NoneKey == "<None>"

\* int(value): ValueError for text that is no integer literal, TypeError for None
to_int(v) ==
    IF v.kind \in {"int", "numstr", "bool"} THEN [ok |-> TRUE, n |-> v.n]
    ELSE [ok |-> FALSE, n |-> 0]

\* float(value), for the integral values of the model
to_float(v) ==
    IF v.kind \in {"int", "numstr", "bool", "floatstr"} THEN [ok |-> TRUE, n |-> v.n]
    ELSE [ok |-> FALSE, n |-> 0]

\* bool(value)
to_bool(v) ==
    CASE v.kind \in {"int", "bool"} -> v.n # 0
      [] v.kind = "none" -> FALSE
      [] OTHER -> TRUE                              \* a non-empty str

\* A quantity in MB: mb + frac / 1048576 with 0 <= frac < 1048576.
BytesPerMB == 1048576
ConvertThreshold == 1000000

MB(n) == [mb |-> n, frac |-> 0]
bytes_to_mb(n) == [mb |-> n \div BytesPerMB, frac |-> n % BytesPerMB]
Positive(q) == q.mb > 0 \/ (q.mb = 0 /\ q.frac > 0)
IsZero(q) == q.mb = 0 /\ q.frac = 0
AddMB(a, b) ==
    [mb |-> a.mb + b.mb + ((a.frac + b.frac) \div BytesPerMB),
     frac |-> (a.frac + b.frac) % BytesPerMB]

\* The ordered mapping `parameters`: a sequence of (name, value), names distinct.
Has(parameters, name) == \E k \in 1..Len(parameters) : parameters[k].name = name
Get(parameters, name) ==
    parameters[CHOOSE k \in 1..Len(parameters) : parameters[k].name = name].value

\* parameters[param_name] = value: a new key goes last, a known key keeps its place
SetItem(parameters, name, value) ==
    IF Has(parameters, name)
    THEN [k \in 1..Len(parameters) |->
            IF parameters[k].name = name
            THEN [name |-> name, value |-> value] ELSE parameters[k]]
    ELSE Append(parameters, [name |-> name, value |-> value])

\* get_all_parameters: the report's parameters folded into a mapping; {} when
\* the reports call raises.
RECURSIVE fold_parameters(_, _)
fold_parameters(params, parameters) ==
    IF params = <<>> THEN parameters
    ELSE fold_parameters(Tail(params),
                         SetItem(parameters, Head(params).name, Head(params).value))

\* the report's parameters are used although the request raised
get_all_parameters_despite_error(usage_report, reportFails) ==
    fold_parameters(usage_report, <<>>)

get_all_parameters(usage_report, reportFails) ==
    IF reportFails THEN <<>> ELSE fold_parameters(usage_report, <<>>)

\* The least index of 1..n satisfying P, 0 when there is none.
First(n, P(_)) ==
    IF \E k \in 1..n : P(k)
    THEN CHOOSE k \in 1..n : P(k) /\ \A j \in 1..(k - 1) : ~P(j)
    ELSE 0

\* The parameter names of the model.
ParamNames ==
    { "num_items", "num_docs", "Drive_File_Count", "gmail_msg_count",
      "drive:num_owned_google_documents_created",
      "drive:num_owned_google_forms_created",
      "docs:num_owned_other_types_created",
      "accounts:drive_used_quota_in_mb", "drive_storage_bytes_used",
      "used_quota_in_mb", "Drive_Bytes_Total", "drive_quota_size",
      "accounts:gmail_used_quota_in_mb", "gmail_used_quota_in_mb",
      "gmail_storage_bytes_used", "Gmail_Quota_Bytes",
      "gmail:num_emails_sent", "num_emails_sent", "num_emails_received",
      "num_emails_exchanged", "gmail:is_gmail_enabled", NoneKey }

Markers == {"count", "items", "docs", "drive", "storage", "quota", "byte", "bytes", "gmail"}

\* marker in param_name.lower(), for every name of the model, computed once
MarkerTable ==
    [n \in ParamNames \ {NoneKey} |-> [m \in Markers |-> Contains(Lower(n), m)]]

\* every name passes every marker test
marker_ignored(name, marker) == TRUE

InLower(name, marker) == MarkerTable[name][marker]

----------------------------------------------------------------------------
(* Google_Users_Assessment.py: the resolvers                               *)

item_count_params ==
    << "num_items", "num_docs", "num_sheets", "num_slides", "num_drawings",
       "num_forms", "num_files", "num_folders", "drive_num_items", "doc_count",
       "drive_file_count", "total_doc_count" >>

doc_type_params ==
    << "drive:num_owned_google_documents_created",
       "drive:num_owned_google_spreadsheets_created",
       "drive:num_owned_google_presentations_created",
       "drive:num_owned_google_drawings_created",
       "drive:num_owned_google_forms_created",
       "drive:num_owned_other_types_created",
       "docs:num_owned_google_documents_created",
       "docs:num_owned_google_spreadsheets_created",
       "docs:num_owned_google_presentations_created",
       "docs:num_owned_google_drawings_created",
       "docs:num_owned_google_forms_created",
       "docs:num_owned_other_types_created" >>

\* A resolver's outcome: the value returned, the key it was taken from (as
\* printed) and the stage that produced it; or the exception that escaped.
Returned(value, source, stage) ==
    [exc |-> FALSE, value |-> value, source |-> source, stage |-> stage]
Raised == [exc |-> TRUE, value |-> 0, source |-> "", stage |-> "raised"]

\* the document-type keys that are present and parse: the keys of type_counts
type_counts(parameters) ==
    { k \in 1..Len(doc_type_params) :
        /\ Has(parameters, doc_type_params[k])
        /\ to_int(Get(parameters, doc_type_params[k])).ok }

\* A slip: only the positive document-type counts are added up.
RECURSIVE sum_positive_type_counts(_, _)
sum_positive_type_counts(parameters, k) ==
    IF k = 0 THEN 0
    ELSE sum_positive_type_counts(parameters, k - 1)
         + (IF k \in type_counts(parameters)
               /\ to_int(Get(parameters, doc_type_params[k])).n > 0
            THEN to_int(Get(parameters, doc_type_params[k])).n ELSE 0)

\* total_items after the loop over doc_type_params[1..k]
RECURSIVE sum_type_counts(_, _)
sum_type_counts(parameters, k) ==
    IF k = 0 THEN 0
    ELSE sum_type_counts(parameters, k - 1)
         + (IF k \in type_counts(parameters)
            THEN to_int(Get(parameters, doc_type_params[k])).n ELSE 0)

\* A slip: the largest positive primary value instead of the first.
largest_item_count(parameters) ==
    LET hit(k) == /\ Has(parameters, item_count_params[k])
                  /\ to_int(Get(parameters, item_count_params[k])).ok
                  /\ to_int(Get(parameters, item_count_params[k])).n > 0
        val(k) == to_int(Get(parameters, item_count_params[k])).n
        best(k) == hit(k) /\ \A j \in 1..Len(item_count_params) : hit(j) => val(j) <= val(k)
    IN  First(Len(item_count_params), best)

\* the first key of item_count_params that is present, parses and is > 0 (0: none)
first_item_count(parameters) ==
    LET hit(k) == /\ Has(parameters, item_count_params[k])
                  /\ to_int(Get(parameters, item_count_params[k])).ok
                  /\ to_int(Get(parameters, item_count_params[k])).n > 0
    IN  First(Len(item_count_params), hit)

get_drive_item_count(parameters) ==
    LET k1 == first_item_count(parameters)
        total_items == sum_type_counts(parameters, Len(doc_type_params))
        raises(k) == parameters[k].name = NoneKey
        returns(k) ==
            /\ ~raises(k)
            /\ \E x \in {"count", "items", "docs"} : InLower(parameters[k].name, x)
            /\ to_int(parameters[k].value).ok
            /\ to_int(parameters[k].value).n > 0
            /\ InLower(parameters[k].name, "drive")
        decides(k) == raises(k) \/ returns(k)
        k3 == First(Len(parameters), decides)
    IN  IF k1 # 0
        THEN Returned(to_int(Get(parameters, item_count_params[k1])).n,
                      item_count_params[k1], "primary")
        ELSE IF type_counts(parameters) # {} /\ total_items > 0
        THEN Returned(total_items, "", "sum")
        ELSE IF total_items = 0 /\ k3 # 0
        THEN IF raises(k3) THEN Raised
             ELSE Returned(to_int(parameters[k3].value).n, parameters[k3].name,
                           "fallback")
        ELSE Returned(total_items, "", "default")

storage_params ==
    << "drive_storage_bytes_used", "storage_quota_bytes", "used_quota_in_mb",
       "quota_used", "storage_quota_mb", "drive_storage_used", "total_storage_used" >>

\* A slip: the conversion without the test of the key's name.
convert_by_size_only(name, n) ==
    IF n > ConvertThreshold THEN bytes_to_mb(n) ELSE MB(n)

\* "Convert to MB if needed": a value under a key naming bytes, or a value above
\* one million, is divided by 1024 * 1024.
convert_to_mb(name, n) ==
    IF InLower(name, "bytes") \/ n > ConvertThreshold THEN bytes_to_mb(n) ELSE MB(n)

get_drive_storage(parameters) ==
    LET quota == "accounts:drive_used_quota_in_mb"
        hit(k) == /\ Has(parameters, storage_params[k])
                  /\ to_float(Get(parameters, storage_params[k])).ok
        k1 == First(Len(storage_params), hit)
        raises(k) == parameters[k].name = NoneKey
        returns(k) ==
            /\ ~raises(k)
            /\ \E x \in {"storage", "quota", "byte"} : InLower(parameters[k].name, x)
            /\ to_float(parameters[k].value).ok
            /\ Positive(convert_to_mb(parameters[k].name,
                                      to_float(parameters[k].value).n))
            /\ InLower(parameters[k].name, "drive")
        decides(k) == raises(k) \/ returns(k)
        k2 == First(Len(parameters), decides)
    IN  IF Has(parameters, quota) /\ to_float(Get(parameters, quota)).ok
        THEN Returned(MB(to_float(Get(parameters, quota)).n), quota, "quota")
        ELSE IF k1 # 0
        THEN Returned(convert_to_mb(storage_params[k1],
                                    to_float(Get(parameters, storage_params[k1])).n),
                      storage_params[k1], "primary")
        ELSE IF k2 # 0
        THEN IF raises(k2) THEN Raised
             ELSE Returned(convert_to_mb(parameters[k2].name,
                                         to_float(parameters[k2].value).n),
                           parameters[k2].name, "fallback")
        ELSE Returned(MB(0), "", "default")

gmail_status_params ==
    << "gmail:is_gmail_enabled", "is_gmail_enabled", "gmail_enabled", "has_gmail" >>
gmail_storage_params ==
    << "gmail_used_quota_in_mb", "gmail_storage_used", "gmail_quota_used",
       "gmail_storage_bytes_used" >>
sent_params ==
    << "gmail:num_emails_sent", "num_emails_sent", "emails_sent", "sent_mail_count" >>
received_params ==
    << "gmail:num_emails_received", "num_emails_received", "emails_received",
       "received_mail_count" >>
exchanged_params ==
    << "gmail:num_emails_exchanged", "num_emails_exchanged", "emails_exchanged",
       "total_mail_count" >>

\* `for param in names: if param in parameters: try: value = int(...) ... break`:
\* the first key of the list that is present and parses (0: none)
first_int(parameters, names) ==
    LET hit(k) == Has(parameters, names[k]) /\ to_int(Get(parameters, names[k])).ok
    IN  First(Len(names), hit)

int_or_zero(parameters, names) ==
    IF first_int(parameters, names) = 0 THEN 0
    ELSE to_int(Get(parameters, names[first_int(parameters, names)])).n

\* A slip: the total is synthesized only when both counts are positive.
exchanged_total_both(sent, received, exchanged) ==
    IF exchanged = 0 /\ (sent > 0 /\ received > 0) THEN sent + received ELSE exchanged

\* "If we don't have exchanged count but have sent and received, calculate it"
exchanged_total(sent, received, exchanged) ==
    IF exchanged = 0 /\ (sent > 0 \/ received > 0) THEN sent + received ELSE exchanged

\* The Gmail storage of get_gmail_statistics: the value, the key it was taken
\* from, whether one was found, or the exception of the fallback scan.
gmail_storage(parameters) ==
    LET quota == "accounts:gmail_used_quota_in_mb"
        hit(k) == /\ Has(parameters, gmail_storage_params[k])
                  /\ to_float(Get(parameters, gmail_storage_params[k])).ok
        k1 == First(Len(gmail_storage_params), hit)
        listed == IF k1 = 0 THEN MB(0)
                  ELSE convert_to_mb(gmail_storage_params[k1],
                                     to_float(Get(parameters, gmail_storage_params[k1])).n)
        raises(k) == parameters[k].name = NoneKey
        sets(k) ==
            /\ ~raises(k)
            /\ \E x \in {"storage", "quota", "byte"} : InLower(parameters[k].name, x)
            /\ InLower(parameters[k].name, "gmail")
            /\ to_float(parameters[k].value).ok
            /\ Positive(convert_to_mb(parameters[k].name,
                                      to_float(parameters[k].value).n))
        decides(k) == raises(k) \/ sets(k)
        k2 == First(Len(parameters), decides)
    IN  IF Has(parameters, quota)
        THEN IF to_float(Get(parameters, quota)).ok
             THEN [exc |-> FALSE, value |-> MB(to_float(Get(parameters, quota)).n),
                   source |-> quota, found |-> TRUE]
             ELSE [exc |-> FALSE, value |-> MB(0), source |-> "", found |-> FALSE]
        ELSE IF ~IsZero(listed) \/ k2 = 0
        THEN [exc |-> FALSE, value |-> listed,
              source |-> IF k1 = 0 THEN "" ELSE gmail_storage_params[k1],
              found |-> k1 # 0]
        ELSE IF raises(k2)
        THEN [exc |-> TRUE, value |-> MB(0), source |-> "", found |-> FALSE]
        ELSE [exc |-> FALSE,
              value |-> convert_to_mb(parameters[k2].name,
                                      to_float(parameters[k2].value).n),
              source |-> parameters[k2].name, found |-> TRUE]

get_gmail_statistics(parameters) ==
    LET ks == First(Len(gmail_status_params),
                    LAMBDA k : Has(parameters, gmail_status_params[k]))
        storage == gmail_storage(parameters)
        sent == int_or_zero(parameters, sent_params)
        received == int_or_zero(parameters, received_params)
        exchanged == int_or_zero(parameters, exchanged_params)
    IN  [exc |-> storage.exc,
         Gmail_Storage_MB |-> storage.value,
         Gmail_Emails_Received |-> received,
         Gmail_Emails_Sent |-> sent,
         Gmail_Emails_Exchanged |-> exchanged_total(sent, received, exchanged),
         Is_Gmail_Enabled |-> IF ks = 0 THEN TRUE
                              ELSE to_bool(Get(parameters, gmail_status_params[ks])),
         Has_Gmail_Data |-> \/ storage.found
                            \/ first_int(parameters, sent_params) # 0
                            \/ first_int(parameters, received_params) # 0
                            \/ first_int(parameters, exchanged_params) # 0,
         storage_source |-> storage.source,
         exchanged_resolved |-> exchanged]

\* get_user_workspace_stats: `directory` is the outcome of users().get
\* ("active", "suspended" or "error").
get_user_workspace_stats(user_email, directory, usage_report, reportFails) ==
    LET stats == [Email |-> user_email,
                  Gmail_Storage_MB |-> MB(0), Gmail_Emails_Received |-> 0,
                  Gmail_Emails_Sent |-> 0, Gmail_Emails_Exchanged |-> 0,
                  Is_Gmail_Enabled |-> directory # "suspended",
                  Has_Gmail_Data |-> FALSE,
                  Drive_Storage_MB |-> MB(0), Drive_Item_Count |-> 0,
                  Has_Drive_Data |-> FALSE,
                  Total_Storage_MB |-> MB(0), Parameter_Source |-> "reports_api"]
        parameters == get_all_parameters(usage_report, reportFails)
        drive_storage == get_drive_storage(parameters)
        stats1 == IF ~drive_storage.exc /\ Positive(drive_storage.value)
                  THEN [stats EXCEPT !.Drive_Storage_MB = drive_storage.value,
                                     !.Has_Drive_Data = TRUE]
                  ELSE stats
        drive_items == get_drive_item_count(parameters)
        stats2 == IF ~drive_items.exc /\ drive_items.value > 0
                  THEN [stats1 EXCEPT !.Drive_Item_Count = drive_items.value,
                                      !.Has_Drive_Data = TRUE]
                  ELSE stats1
        gmail_stats == get_gmail_statistics(parameters)
        stats3 == [stats2 EXCEPT
                     !.Gmail_Storage_MB = gmail_stats.Gmail_Storage_MB,
                     !.Gmail_Emails_Received = gmail_stats.Gmail_Emails_Received,
                     !.Gmail_Emails_Sent = gmail_stats.Gmail_Emails_Sent,
                     !.Gmail_Emails_Exchanged = gmail_stats.Gmail_Emails_Exchanged,
                     !.Is_Gmail_Enabled = gmail_stats.Is_Gmail_Enabled,
                     !.Has_Gmail_Data = gmail_stats.Has_Gmail_Data,
                     !.Total_Storage_MB = AddMB(gmail_stats.Gmail_Storage_MB,
                                                stats2.Drive_Storage_MB)]
    IN  IF parameters = <<>> THEN stats
        ELSE IF drive_storage.exc THEN stats            \* except Exception: return stats
        ELSE IF drive_items.exc THEN stats1
        ELSE IF gmail_stats.exc THEN stats2
        ELSE stats3

----------------------------------------------------------------------------
(* The resolvers applied to the usage reports of a bounded family          *)

\* The families of usage reports: the names and values a report draws from.
ItemNames ==
    {"num_items", "num_docs", "Drive_File_Count",
     "drive:num_owned_google_documents_created"}
ComponentNames ==
    {"num_items", "drive:num_owned_google_documents_created",
     "drive:num_owned_google_forms_created", "docs:num_owned_other_types_created"}
FallbackNames ==
    {"Drive_File_Count", "gmail_msg_count", "accounts:drive_used_quota_in_mb", NoneKey}
DriveStorageNames ==
    {"drive_storage_bytes_used", "used_quota_in_mb", "Drive_Bytes_Total",
     "drive_quota_size"}
DriveQuotaNames ==
    {"accounts:drive_used_quota_in_mb", "drive_storage_bytes_used",
     "drive_quota_size", NoneKey}
GmailStorageNames ==
    {"accounts:gmail_used_quota_in_mb", "gmail_used_quota_in_mb",
     "gmail_storage_bytes_used", "Gmail_Quota_Bytes"}
MessageNames ==
    {"gmail:num_emails_sent", "num_emails_sent", "num_emails_received",
     "num_emails_exchanged"}
StatsNames ==
    {"accounts:drive_used_quota_in_mb", "gmail_storage_bytes_used",
     "gmail:is_gmail_enabled", NoneKey}

ReportFamilies ==
    { [names |-> ItemNames, values |-> {IntVal(0), IntVal(5), IntVal(7)}],
      [names |-> ItemNames, values |-> {BadStr, NoneVal, NumStr(5)}],
      [names |-> ComponentNames, values |-> {IntVal(-3), IntVal(1), IntVal(2)}],
      [names |-> ComponentNames, values |-> {IntVal(0), IntVal(5), BadStr}],
      [names |-> FallbackNames, values |-> {IntVal(0), IntVal(5), BoolVal(TRUE)}],
      [names |-> DriveStorageNames, values |-> {IntVal(0), IntVal(5), IntVal(2097152)}],
      [names |-> DriveStorageNames,
       values |-> {IntVal(1000000), IntVal(1000001), BadStr}],
      [names |-> DriveQuotaNames, values |-> {IntVal(-3), IntVal(2097152), NoneVal}],
      [names |-> DriveQuotaNames, values |-> {IntVal(0), IntVal(5), BadStr}],
      [names |-> GmailStorageNames, values |-> {IntVal(0), IntVal(5), IntVal(2097152)}],
      [names |-> GmailStorageNames, values |-> {BadStr, FloatStr(5), IntVal(1000001)}],
      [names |-> MessageNames, values |-> {IntVal(0), IntVal(5), IntVal(7)}],
      [names |-> MessageNames, values |-> {IntVal(-3), IntVal(5), BadStr}],
      [names |-> StatsNames, values |-> {IntVal(5), BoolVal(FALSE), BadStr}] }

\* The reports of a family: at most MaxParams parameters, names distinct.
Reports(family) ==
    UNION { { r \in [1..n -> [name : family.names, value : family.values]] :
                \A i, j \in 1..n : i # j => r[i].name # r[j].name } :
            n \in 0..MaxParams }

Users == {"alice@corp.com"}

\* the mapping the resolvers are applied to
parameters == get_all_parameters(report, FALSE)

ResolveInit ==
    /\ \E family \in ReportFamilies : report \in Reports(family)
    /\ res = [op |-> "none"]
    /\ perms = [d \in Drives |-> <<>>]
    /\ run = IdleRun
    /\ lastCall = NoCall
    /\ granted = [d \in Drives |-> NoGrant]
    /\ svc = IdleService /\ col = IdleCollect /\ loop = IdleLoop
    /\ job = IdleJob /\ out = NoOutput

DriveItemCount ==
    /\ res.op = "none"
    /\ res' = [op |-> "get_drive_item_count", out |-> get_drive_item_count(parameters)]
    /\ UNCHANGED <<report, perms, run, lastCall, granted, svc, col, loop, job, out>>

DriveStorage ==
    /\ res.op = "none"
    /\ res' = [op |-> "get_drive_storage", out |-> get_drive_storage(parameters)]
    /\ UNCHANGED <<report, perms, run, lastCall, granted, svc, col, loop, job, out>>

GmailStatistics ==
    /\ res.op = "none"
    /\ res' = [op |-> "get_gmail_statistics", out |-> get_gmail_statistics(parameters)]
    /\ UNCHANGED <<report, perms, run, lastCall, granted, svc, col, loop, job, out>>

UserWorkspaceStats ==
    /\ res.op = "none"
    /\ \E user_email \in Users, directory \in {"active", "suspended", "error"},
          reportFails \in BOOLEAN :
         res' = [op |-> "get_user_workspace_stats", directory |-> directory,
                 reportFailed |-> reportFails,
                 out |-> get_user_workspace_stats(user_email, directory, report,
                                                  reportFails)]
    /\ UNCHANGED <<report, perms, run, lastCall, granted, svc, col, loop, job, out>>

ResolveNext == DriveItemCount \/ DriveStorage \/ GmailStatistics \/ UserWorkspaceStats

SpecResolve == ResolveInit /\ [][ResolveNext]_vars

----------------------------------------------------------------------------
(* The claims about Google_Users_Assessment.py                             *)

\* what the usage report holds under a name
Reported(name) == \E i \in 1..Len(report) : report[i].name = name
ReportedValue(name) == report[CHOOSE i \in 1..Len(report) : report[i].name = name].value
\* the value parses as an integer / as a number
IsInteger(v) == v.kind \in {"int", "numstr", "bool"}
IsNumber(v) == v.kind \in {"int", "numstr", "bool", "floatstr"}
PositiveInteger(name) ==
    Reported(name) /\ IsInteger(ReportedValue(name)) /\ ReportedValue(name).n > 0
InList(name, list) == \E k \in 1..Len(list) : list[k] = name

\* C4 (as claimed): every record returned by get_user_workspace_stats has
\* Total_Storage_MB = Gmail_Storage_MB + Drive_Storage_MB.
TotalIsSum ==
    res.op = "get_user_workspace_stats" =>
        res.out.Total_Storage_MB =
            AddMB(res.out.Gmail_Storage_MB, res.out.Drive_Storage_MB)

\* C5: get_drive_item_count returns the value of the first key of
\* item_count_params that is reported with an integer value greater than zero,
\* whatever the other keys and however large a later key's value.
PrimaryKeyFirst ==
    res.op = "get_drive_item_count" =>
        \A k \in 1..Len(item_count_params) :
            ( /\ PositiveInteger(item_count_params[k])
              /\ \A j \in 1..(k - 1) : ~PositiveInteger(item_count_params[j]) )
            => /\ ~res.out.exc
               /\ res.out.value = ReportedValue(item_count_params[k]).n
               /\ res.out.source = item_count_params[k]

\* num_items = 5 is returned although the later key num_docs holds 7.
PrimaryKeyFirstWitness ==
    /\ res.op = "get_drive_item_count"
    /\ Reported("num_items") /\ ReportedValue("num_items") = IntVal(5)
    /\ Reported("num_docs") /\ ReportedValue("num_docs") = IntVal(7)
    /\ res.out.value = 5 /\ res.out.source = "num_items"

\* the component keys reported with an integer value / with a positive one
ParsedComponents ==
    { k \in 1..Len(doc_type_params) :
        Reported(doc_type_params[k]) /\ IsInteger(ReportedValue(doc_type_params[k])) }
PositiveComponents == { k \in ParsedComponents : ReportedValue(doc_type_params[k]).n > 0 }

RECURSIVE ComponentSum(_)
ComponentSum(ks) ==
    IF ks = {} THEN 0
    ELSE LET k == CHOOSE x \in ks : TRUE
         IN  ReportedValue(doc_type_params[k]).n + ComponentSum(ks \ {k})

NoPrimaryItemCount ==
    \A k \in 1..Len(item_count_params) : ~PositiveInteger(item_count_params[k])

\* C6 (as claimed): with no positive primary key and two or more positive
\* component keys, get_drive_item_count returns the sum of the positive
\* component values, whatever the other keys hold.
ComponentSumOfPositives ==
    ( /\ res.op = "get_drive_item_count"
      /\ NoPrimaryItemCount
      /\ Cardinality(PositiveComponents) >= 2 )
    => ~res.out.exc /\ res.out.value = ComponentSum(PositiveComponents)

\* C6 (amended): with no positive primary key and two or more positive
\* component keys, get_drive_item_count returns the sum of all the component
\* values that are reported and parse as integers, the negative ones included,
\* whenever that sum is not zero.
ComponentSumOfParsed ==
    ( /\ res.op = "get_drive_item_count"
      /\ NoPrimaryItemCount
      /\ Cardinality(PositiveComponents) >= 2
      /\ ComponentSum(ParsedComponents) # 0 )
    => ~res.out.exc /\ res.out.value = ComponentSum(ParsedComponents)

\* Two positive components and a negative one: the negative one is added in.
ComponentSumWitness ==
    /\ res.op = "get_drive_item_count"
    /\ NoPrimaryItemCount
    /\ Cardinality(PositiveComponents) >= 2
    /\ ParsedComponents # PositiveComponents
    /\ res.out.stage = "sum"
    /\ res.out.value = ComponentSum(ParsedComponents)
    /\ res.out.value # ComponentSum(PositiveComponents)

NamesBytes(name) == name # NoneKey /\ Contains(Lower(name), "bytes")

\* C7: a storage value taken from a key whose name contains 'bytes' is returned
\* by get_drive_storage, and stored in Gmail_Storage_MB, as the reported value
\* divided by 1,048,576.
BytesKeyDivided ==
    /\ ( /\ res.op = "get_drive_storage"
         /\ ~res.out.exc
         /\ res.out.source # ""
         /\ NamesBytes(res.out.source) )
       => /\ IsNumber(ReportedValue(res.out.source))
          /\ res.out.value.mb = ReportedValue(res.out.source).n \div 1048576
          /\ res.out.value.frac = ReportedValue(res.out.source).n % 1048576
    /\ ( /\ res.op = "get_gmail_statistics"
         /\ ~res.out.exc
         /\ res.out.storage_source # ""
         /\ NamesBytes(res.out.storage_source) )
       => /\ IsNumber(ReportedValue(res.out.storage_source))
          /\ res.out.Gmail_Storage_MB.mb =
                ReportedValue(res.out.storage_source).n \div 1048576
          /\ res.out.Gmail_Storage_MB.frac =
                ReportedValue(res.out.storage_source).n % 1048576

\* The fallback scan picks Drive_Bytes_Total = 5: 5 / 1,048,576 MB is returned.
BytesKeyWitness ==
    /\ res.op = "get_drive_storage"
    /\ res.out.stage = "fallback"
    /\ res.out.source = "Drive_Bytes_Total"
    /\ ReportedValue("Drive_Bytes_Total") = IntVal(5)
    /\ res.out.value = [mb |-> 0, frac |-> 5]

\* C8 (as claimed): when the exchanged total resolves to zero and the sent and
\* received counts both resolve to non-zero values, Gmail_Emails_Exchanged is
\* their sum; an exchanged total that resolves to non-zero is kept.
ExchangedWhenBothNonZero ==
    (res.op = "get_gmail_statistics" /\ ~res.out.exc) =>
        /\ ( /\ res.out.exchanged_resolved = 0
             /\ res.out.Gmail_Emails_Sent # 0
             /\ res.out.Gmail_Emails_Received # 0 )
           => res.out.Gmail_Emails_Exchanged =
                 res.out.Gmail_Emails_Sent + res.out.Gmail_Emails_Received
        /\ res.out.exchanged_resolved # 0
           => res.out.Gmail_Emails_Exchanged = res.out.exchanged_resolved

\* C8 (amended): when the exchanged total resolves to zero and at least one of
\* the sent and received counts resolves to a value greater than zero,
\* Gmail_Emails_Exchanged is their sum; an exchanged total that resolves to
\* non-zero is kept.
ExchangedWhenOnePositive ==
    (res.op = "get_gmail_statistics" /\ ~res.out.exc) =>
        /\ ( /\ res.out.exchanged_resolved = 0
             /\ (res.out.Gmail_Emails_Sent > 0 \/ res.out.Gmail_Emails_Received > 0) )
           => res.out.Gmail_Emails_Exchanged =
                 res.out.Gmail_Emails_Sent + res.out.Gmail_Emails_Received
        /\ res.out.exchanged_resolved # 0
           => res.out.Gmail_Emails_Exchanged = res.out.exchanged_resolved

\* sent = 5, received = 7, no exchanged key: the total is 12.
ExchangedWitness ==
    /\ res.op = "get_gmail_statistics"
    /\ \A k \in 1..Len(exchanged_params) : ~Reported(exchanged_params[k])
    /\ res.out.Gmail_Emails_Sent = 5
    /\ res.out.Gmail_Emails_Received = 7
    /\ res.out.Gmail_Emails_Exchanged = 12

----------------------------------------------------------------------------
(* Google_Users_Assessment.py: collect_workspace_stats                     *)

MaxUserPages == 3    \* pages the user listing is served in
SnapshotEvery == 10  \* len(stats_list) % 10 == 0

\* the sizes of the pages users().list serves (0: a page without users)
PageSizes == {0, 3, 10}
LargestPage == CHOOSE n \in PageSizes : \A m \in PageSizes : m <= n
\* --max-users values (0: no limit)
MaxUsersArgs == {0, 2, 10}

Digits == <<"0", "1", "2", "3", "4", "5", "6", "7", "8", "9">>

\* str(n) of a natural number, as the f-strings format it
RECURSIVE str(_)
str(n) == IF n < 10 THEN Digits[n + 1] ELSE str(n \div 10) \o Digits[(n % 10) + 1]

\* The user listings the remote serves: page p carries nextPageToken p+1 unless
\* it is the last; the users are numbered in listing order.
UserListings == UNION { [1..n -> PageSizes] : n \in 1..MaxUserPages }

\* The calls that raise: the per-user directory gets and usage-report gets, by
\* the user's number in the listing.
FailureScripts ==
    { [dir |-> {}, rep |-> {}], [dir |-> {1}, rep |-> {}],
      [dir |-> {}, rep |-> {2}], [dir |-> {2, 3}, rep |-> {1, 3}] }

RECURSIVE SumSizes(_, _)
SumSizes(sizes, n) == IF n = 0 THEN 0 ELSE sizes[n] + SumSizes(sizes, n - 1)

\* user.get('primaryEmail', '') of the k-th listed user
primaryEmail(k) == "user" \o (IF k < 10 THEN "0" ELSE "") \o str(k) \o "@corp.com"

\* what users().get answers for the k-th user, and the user's usage report
directory_of(k, dirFails) ==
    IF k \in dirFails THEN "error" ELSE IF k % 4 = 0 THEN "suspended" ELSE "active"
usage_report_of(k) ==
    IF k % 3 = 0
    THEN << [name |-> "accounts:drive_used_quota_in_mb", value |-> IntVal(5)],
            [name |-> NoneKey, value |-> IntVal(1)] >>
    ELSE IF k % 2 = 1
    THEN << [name |-> "accounts:drive_used_quota_in_mb", value |-> IntVal(5)],
            [name |-> "accounts:gmail_used_quota_in_mb", value |-> IntVal(7)] >>
    ELSE << [name |-> "num_items", value |-> IntVal(3)] >>

----------------------------------------------------------------------------
(* google_mailbox_permissions.py: process_user_mailbox_permissions         *)

\* what the remote answers about the k-th listed user: the `suspended` field of
\* the listing, users().get (empty when the call raises), and the delegates,
\* forwarding and IMAP/POP settings of the mailbox (empty when a call raises)
listed_suspended(k) == k % 4 = 0
user_details_of(k, dirFails) ==
    IF k \in dirFails THEN [ok |-> FALSE, suspended |-> FALSE, isAdmin |-> FALSE]
    ELSE [ok |-> TRUE, suspended |-> (k % 4 = 0 \/ k % 7 = 0), isAdmin |-> (k = 1)]
delegates_of(k, gmailFails) ==
    IF k \in gmailFails \/ k % 2 = 0 THEN <<>>
    ELSE <<"boss@corp.com", "pa@corp.com">>
forwarding_of(k, gmailFails) ==
    [ok |-> k \notin gmailFails,
     forwarding_addresses |-> IF k % 3 = 1 THEN <<"fwd@ext.com">> ELSE <<>>,
     auto_forward |-> [enabled |-> (k % 2 = 0), emailAddress |-> "auto@ext.com"]]
access_settings_of(k, gmailFails) ==
    [ok |-> k \notin gmailFails,
     imap |-> [enabled |-> (k % 2 = 1)],
     pop |-> [accessWindow |-> IF k % 3 = 0 THEN "DISABLED" ELSE "allMail"]]

\* nothing is ever found in a list
never_listed(x, seq) == FALSE

\* x in seq
InSeq(x, seq) == \E j \in 1..Len(seq) : seq[j] = x

\* a list of strings, and the string _save_to_csv replaces it by
ListOf(items) == [kind |-> "list", items |-> items]
StrOf(text) == [kind |-> "str", text |-> text]

\* process_user_mailbox_permissions: the record of one user; `calls` are the
\* mail-settings calls it issued
process_user_mailbox_permissions(user_email, user_info, delegates, forwarding, access_settings) ==
    LET permissions_data ==
            [Email |-> user_email, HasDelegates |-> FALSE, DelegateCount |-> 0,
             Delegates |-> ListOf(<<>>), HasForwarding |-> FALSE,
             ForwardingEnabled |-> FALSE, ForwardingAddresses |-> ListOf(<<>>),
             HasIMAPAccess |-> FALSE, HasPOPAccess |-> FALSE,
             UserIsActive |-> TRUE, UserIsSuspended |-> FALSE]
        d1 == IF user_info.ok
              THEN [permissions_data EXCEPT !.UserIsActive = ~user_info.suspended,
                                            !.UserIsSuspended = user_info.suspended]
                   @@ [IsAdmin |-> user_info.isAdmin, IsDelegatedAdmin |-> FALSE,
                       Has2FA |-> user_info.isAdmin, OrgUnitPath |-> "/"]
              ELSE permissions_data
        d2 == IF delegates # <<>>
              THEN [d1 EXCEPT !.HasDelegates = TRUE, !.DelegateCount = Len(delegates),
                              !.Delegates = ListOf(delegates)]
              ELSE d1
        dest == forwarding.auto_forward.emailAddress
        d3 == IF forwarding.ok
              THEN [d2 EXCEPT
                      !.HasForwarding = forwarding.forwarding_addresses # <<>>
                                        \/ forwarding.auto_forward.enabled,
                      !.ForwardingEnabled = forwarding.auto_forward.enabled,
                      !.ForwardingAddresses =
                          ListOf(IF forwarding.auto_forward.enabled
                                    /\ ~InSeq(dest, forwarding.forwarding_addresses)
                                 THEN Append(forwarding.forwarding_addresses, dest)
                                 ELSE forwarding.forwarding_addresses)]
                   @@ ("ForwardingDestination" :> dest)
              ELSE d2
        d4 == IF access_settings.ok
              THEN [d3 EXCEPT
                      !.HasIMAPAccess = access_settings.imap.enabled,
                      !.HasPOPAccess = access_settings.pop.accessWindow # "DISABLED"]
              ELSE d3
    IN  IF d1.UserIsSuspended THEN [data |-> d1, calls |-> 0]
        ELSE [data |-> d4, calls |-> 3]

\* ','.join(items)
RECURSIVE join(_)
join(items) ==
    IF items = <<>> THEN ""
    ELSE IF Len(items) = 1 THEN items[1]
    ELSE items[1] \o "," \o join(Tail(items))

\* no file is ever written
save_nothing(saved, data, filename) == saved

\* _save_to_csv: a full write of the file, or nothing when there is no data
save_to_csv(saved, data, filename) ==
    IF data # <<>> THEN Append(saved, [filename |-> filename, data |-> data])
    ELSE saved

\* the run returns without writing the final snapshot
return_unsaved(c) ==
    [c EXCEPT !.returned = c.stats_list, !.phase = "done", !.outcome = "returned"]

\* lines 559-562: the final snapshot and the return
save_final(c) ==
    [c EXCEPT !.saved = save_to_csv(c.saved, c.stats_list,
                                    "workspace_stats_complete.csv"),
              !.returned = c.stats_list, !.phase = "done", !.outcome = "returned"]

\* a page request that raised is skipped and the next page requested
skip_failed_page(c) ==
    LET p == IF c.page_token = 0 THEN 1 ELSE c.page_token
    IN  IF p < Len(svc.sizes) THEN [c EXCEPT !.page_token = p + 1]
        ELSE save_final(c)

\* lines 564-571: the handler of an exception of the page loop
except_Exception(c) ==
    [c EXCEPT !.saved = IF c.stats_list # <<>>
                        THEN save_to_csv(c.saved, c.stats_list,
                                         "workspace_stats_error.csv")
                        ELSE c.saved,
              !.returned = c.stats_list, !.phase = "done", !.outcome = "error"]

CollectInit ==
    /\ \E sizes \in UserListings, failAt \in 0..MaxUserPages, f \in FailureScripts :
         svc = [sizes |-> sizes, failAt |-> failAt, dir |-> f.dir, rep |-> f.rep]
    /\ col = IdleCollect /\ loop = IdleLoop
    /\ job = IdleJob /\ out = NoOutput
    /\ perms = [d \in Drives |-> <<>>]
    /\ run = IdleRun
    /\ lastCall = NoCall
    /\ granted = [d \in Drives |-> NoGrant]
    /\ report = <<>> /\ res = [op |-> "none"]

\* collect_workspace_stats(max_users) up to the loop
CollectStart ==
    /\ col.phase = "idle"
    /\ \E max_users \in MaxUsersArgs :
         col' = [IdleCollect EXCEPT !.phase = "list",
                                    !.op = "collect_workspace_stats",
                                    !.max_users = max_users]
    /\ UNCHANGED <<svc, perms, run, lastCall, granted, report, res, loop, job, out>>

\* users().list(...).execute() and the code up to the next remote call
ListUsers ==
    /\ col.phase = "list"
    /\ col.op = "collect_workspace_stats"
    /\ LET c == [col EXCEPT !.requests = @ + 1]
           p == IF col.page_token = 0 THEN 1 ELSE col.page_token
       IN  col' = IF c.requests = svc.failAt THEN except_Exception(c)
                  ELSE IF svc.sizes[p] = 0 THEN save_final(c)    \* if not users: break
                  ELSE [c EXCEPT !.phase = "users", !.page = p, !.i = 1]
    /\ UNCHANGED <<svc, perms, run, lastCall, granted, report, res, loop, job, out>>

\* the user limit is never reached
limit_ignored(user_count, max_users) == FALSE

\* user_count >= max_users and max_users > 0
limit_reached(user_count, max_users) == user_count >= max_users /\ max_users > 0

\* lines 538-557: the code that follows get_user_workspace_stats, up to the next
\* remote call
after_user(c0, workspace_stats, sizes) ==
    LET c == [c0 EXCEPT !.stats_list = Append(@, workspace_stats),
                        !.user_count = @ + 1, !.calls = @ + 2]
        limit == limit_reached(c.user_count, c.max_users)
        next_token == IF c0.page < Len(sizes) THEN c0.page + 1 ELSE 0
    IN  IF limit THEN save_final(c)
        ELSE IF c0.i < sizes[c0.page] THEN [c EXCEPT !.i = @ + 1]
        ELSE IF next_token = 0 THEN save_final(c)
        ELSE [c EXCEPT
                !.page_token = next_token,
                !.phase = "list",
                !.saved = IF Len(c.stats_list) % SnapshotEvery = 0
                          THEN save_to_csv(@, c.stats_list,
                                   "workspace_stats_partial_"
                                   \o str(Len(c.stats_list)) \o ".csv")
                          ELSE @]

\* get_user_workspace_stats(user_email, reports_service, directory_service) for
\* the k-th listed user, by what the directory call does and by whether the
\* reports call raises
user_workspace_stats ==
    [k \in 1..(MaxUserPages * LargestPage) |->
       [directory \in {"active", "suspended", "error"} |->
          [reportFails \in BOOLEAN |->
             get_user_workspace_stats(primaryEmail(k), directory,
                                      usage_report_of(k), reportFails)]]]

\* one iteration of the loop over the page's users, and the code that follows it
\* up to the next remote call
ProcessUser ==
    /\ col.phase = "users"
    /\ col.op = "collect_workspace_stats"
    /\ LET k == SumSizes(svc.sizes, col.page - 1) + col.i
       IN  col' = after_user(col,
                             user_workspace_stats[k][directory_of(k, svc.dir)][(k \in svc.rep)],
                             svc.sizes)
    /\ UNCHANGED <<svc, perms, run, lastCall, granted, report, res, loop, job, out>>

\* get_all_shared_drives(service), against a drive listing
GetAllSharedDrives ==
    /\ col.phase = "idle"
    /\ \E pages \in DrivePagings, failAt \in 0..MaxDrivePages :
         col' = [IdleCollect EXCEPT !.phase = "done",
                                    !.op = "get_all_shared_drives",
                                    !.drive_pages = pages,
                                    !.drive_failAt = failAt,
                                    !.returned = get_all_shared_drives(pages, failAt),
                                    !.outcome = "returned"]
    /\ UNCHANGED <<svc, perms, run, lastCall, granted, report, res, loop, job, out>>

----------------------------------------------------------------------------
(* google_mailbox_permissions.py: export_mailbox_permissions               *)

\* text.split(',')
RECURSIVE split(_)
split(text) ==
    IF Contains(text, ",")
    THEN LET i == CHOOSE j \in 1..Len(text) :
                     /\ SubSeq(text, j, j) = ","
                     /\ \A h \in 1..(j - 1) : SubSeq(text, h, h) # ","
         IN  <<SubSeq(text, 1, i - 1)>> \o split(SubSeq(text, i + 1, Len(text)))
    ELSE <<text>>

\* text.strip()
RECURSIVE strip(_)
strip(text) ==
    IF text = "" THEN ""
    ELSE IF SubSeq(text, 1, 1) = " " THEN strip(SubSeq(text, 2, Len(text)))
    ELSE IF SubSeq(text, Len(text), Len(text)) = " "
    THEN strip(SubSeq(text, 1, Len(text) - 1))
    ELSE text

\* the items of a list field that _save_to_csv may have turned into a string
items_of(field) ==
    IF field.kind = "str"
    THEN (IF field.text # "" THEN split(field.text) ELSE <<>>)
    ELSE field.items

joined(field) == IF field.kind = "list" THEN StrOf(join(field.items)) ELSE field

\* _save_to_csv of google_mailbox_permissions.py turns the list fields of the
\* items of `data` into strings, in place, before it writes the file
stringified(data) ==
    [j \in 1..Len(data) |->
        [data[j] EXCEPT !.Delegates = joined(@), !.ForwardingAddresses = joined(@)]]

\* the rows of detailed_delegates.csv and of detailed_forwarding.csv
RECURSIVE delegate_records(_)
delegate_records(permissions_list) ==
    IF permissions_list = <<>> THEN <<>>
    ELSE LET perm == Head(permissions_list)
             delegates == SelectSeq(items_of(perm.Delegates), LAMBDA d : d # "")
         IN  [j \in 1..Len(delegates) |->
                 [Mailbox |-> perm.Email, Delegate |-> strip(delegates[j])]]
             \o delegate_records(Tail(permissions_list))

RECURSIVE forwarding_records(_)
forwarding_records(permissions_list) ==
    IF permissions_list = <<>> THEN <<>>
    ELSE LET perm == Head(permissions_list)
             addresses == SelectSeq(items_of(perm.ForwardingAddresses),
                                    LAMBDA a : a # "")
         IN  [j \in 1..Len(addresses) |->
                 [Mailbox |-> perm.Email, ForwardingAddress |-> strip(addresses[j]),
                  AutoForwardingEnabled |-> perm.ForwardingEnabled]]
             \o forwarding_records(Tail(permissions_list))

\* lines 376-386: the final snapshot, the two detailed files and the return
mailbox_save_final(c) ==
    LET permissions_list == stringified(c.stats_list)
        s1 == save_to_csv(c.saved, permissions_list, "mailbox_permissions_complete.csv")
        s2 == save_to_csv(s1, delegate_records(permissions_list),
                          "detailed_delegates.csv")
        s3 == save_to_csv(s2, forwarding_records(permissions_list),
                          "detailed_forwarding.csv")
    IN  [c EXCEPT !.saved = s3, !.stats_list = permissions_list,
                  !.returned = permissions_list,
                  !.phase = "done", !.outcome = "returned"]

\* lines 388-395: the handler of an exception of the page loop
mailbox_except_Exception(c) ==
    LET permissions_list == stringified(c.stats_list)
    IN  [c EXCEPT !.saved = save_to_csv(@, permissions_list,
                                        "mailbox_permissions_error.csv"),
                  !.stats_list = permissions_list, !.returned = permissions_list,
                  !.phase = "done", !.outcome = "error"]

\* lines 366-375: the code that follows the loop over the page's users
mailbox_after_page(c, sizes) ==
    LET next_token == IF c.page < Len(sizes) THEN c.page + 1 ELSE 0
    IN  IF limit_reached(c.user_count, c.max_users) THEN mailbox_save_final(c)
        ELSE IF next_token = 0 THEN mailbox_save_final(c)
        ELSE IF Len(c.stats_list) % SnapshotEvery = 0
        THEN [c EXCEPT !.page_token = next_token, !.phase = "list",
                       !.stats_list = stringified(@),
                       !.saved = save_to_csv(@, stringified(c.stats_list),
                                     "mailbox_permissions_partial_"
                                     \o str(Len(c.stats_list)) \o ".csv")]
        ELSE [c EXCEPT !.page_token = next_token, !.phase = "list"]

\* no listed user is skipped
skipped_nobody(is_suspended) == FALSE

\* line 350: `if not is_suspended:` guards the processing of the user
skipped(is_suspended) == is_suspended

\* lines 348-364: one iteration of the loop over the page's users; `processed`
\* is what process_user_mailbox_permissions returns for the user
mailbox_after_user(c0, suspended, processed, sizes) ==
    LET c == IF skipped(suspended) THEN c0
             ELSE [c0 EXCEPT !.stats_list = Append(@, processed.data),
                             !.user_count = @ + 1,
                             !.calls = @ + 1 + processed.calls]
        limit == ~skipped(suspended) /\ limit_reached(c.user_count, c.max_users)
    IN  IF ~limit /\ c0.i < sizes[c0.page] THEN [c EXCEPT !.i = @ + 1]
        ELSE mailbox_after_page(c, sizes)

\* export_mailbox_permissions(max_users) up to the loop
ExportMailboxStart ==
    /\ col.phase = "idle"
    /\ \E max_users \in MaxUsersArgs :
         col' = [IdleCollect EXCEPT !.phase = "list",
                                    !.op = "export_mailbox_permissions",
                                    !.max_users = max_users]
    /\ UNCHANGED <<svc, perms, run, lastCall, granted, report, res, loop, job, out>>

\* users().list(...).execute() and the code up to the next per-user step
ListMailboxUsers ==
    /\ col.phase = "list"
    /\ col.op = "export_mailbox_permissions"
    /\ LET c == [col EXCEPT !.requests = @ + 1]
           p == IF col.page_token = 0 THEN 1 ELSE col.page_token
       IN  col' = IF c.requests = svc.failAt THEN mailbox_except_Exception(c)
                  ELSE IF svc.sizes[p] = 0 THEN mailbox_save_final(c)
                  ELSE [c EXCEPT !.phase = "users", !.page = p, !.i = 1]
    /\ UNCHANGED <<svc, perms, run, lastCall, granted, report, res, loop, job, out>>

ProcessMailboxUser ==
    /\ col.phase = "users"
    /\ col.op = "export_mailbox_permissions"
    /\ LET k == SumSizes(svc.sizes, col.page - 1) + col.i
       IN  col' = mailbox_after_user(col, listed_suspended(k),
                      process_user_mailbox_permissions(primaryEmail(k),
                          user_details_of(k, svc.dir), delegates_of(k, svc.rep),
                          forwarding_of(k, svc.rep), access_settings_of(k, svc.rep)),
                      svc.sizes)
    /\ UNCHANGED <<svc, perms, run, lastCall, granted, report, res, loop, job, out>>

CollectNext ==
    \/ CollectStart \/ ListUsers \/ ProcessUser \/ GetAllSharedDrives
    \/ ExportMailboxStart \/ ListMailboxUsers \/ ProcessMailboxUser

SpecCollect == CollectInit /\ [][CollectNext]_vars

----------------------------------------------------------------------------
(* The claims about the collection runs                                    *)

Min(a, b) == IF a <= b THEN a ELSE b

\* the pages of a listing that precede its first empty page
PagesBeforeEmpty(pages, IsEmpty(_)) ==
    IF \E p \in 1..Len(pages) : IsEmpty(pages[p])
    THEN (CHOOSE p \in 1..Len(pages) :
             IsEmpty(pages[p]) /\ \A q \in 1..(p - 1) : ~IsEmpty(pages[q])) - 1
    ELSE Len(pages)

\* the pages fetched when the request numbered failAt raises (0: none does)
PagesBeforeFailure(n, failAt) == IF failAt = 0 THEN n ELSE Min(n, failAt - 1)

\* the users a run with the limit max_users processes out of n listed ones
Limited(n, max_users) == IF max_users > 0 THEN Min(n, max_users) ELSE n

EmailsOf(rows) == [j \in 1..Len(rows) |-> rows[j].Email]
FirstEmails(n) == [j \in 1..n |-> primaryEmail(j)]

RECURSIVE Concat(_, _)
Concat(pages, n) == IF n = 0 THEN <<>> ELSE Concat(pages, n - 1) \o pages[n]

SavedAs(filename) == { j \in 1..Len(col.saved) : col.saved[j].filename = filename }

UserPagesServed == PagesBeforeEmpty(svc.sizes, LAMBDA size : size = 0)
DrivePagesServed == PagesBeforeEmpty(col.drive_pages, LAMBDA page : page = <<>>)

CollectDone == col.phase = "done" /\ col.op = "collect_workspace_stats"
DrivesDone == col.phase = "done" /\ col.op = "get_all_shared_drives"

DefaultStats(user_email, enabled) ==
    [Email |-> user_email,
     Gmail_Storage_MB |-> MB(0), Gmail_Emails_Received |-> 0,
     Gmail_Emails_Sent |-> 0, Gmail_Emails_Exchanged |-> 0,
     Is_Gmail_Enabled |-> enabled, Has_Gmail_Data |-> FALSE,
     Drive_Storage_MB |-> MB(0), Drive_Item_Count |-> 0, Has_Drive_Data |-> FALSE,
     Total_Storage_MB |-> MB(0), Parameter_Source |-> "reports_api"]

\* C11: get_user_workspace_stats returns one record for every user whichever of
\* its remote calls fail: collect_workspace_stats holds exactly one record per
\* user processed, in listing order, the record of a user whose usage report
\* could not be fetched holds the zero/false defaults, and with the directory
\* entry missing as well it is the initial record.
OneRecordPerUser ==
    col.op = "collect_workspace_stats" =>
      /\ Len(col.stats_list) = col.user_count
      /\ col.phase = "users" =>
           Len(col.stats_list) = SumSizes(svc.sizes, col.page - 1) + col.i - 1
      /\ EmailsOf(col.stats_list) = FirstEmails(Len(col.stats_list))
      /\ \A j \in 1..Len(col.stats_list) :
           /\ j \in svc.rep =>
                col.stats_list[j] =
                    DefaultStats(primaryEmail(j), col.stats_list[j].Is_Gmail_Enabled)
           /\ j \in svc.rep \cap svc.dir =>
                col.stats_list[j] = DefaultStats(primaryEmail(j), TRUE)

\* a finished run that processed a user whose two remote calls both failed, a
\* user whose report failed, a user whose directory get failed and a user one
\* of whose resolvers raised
OneRecordPerUserWitness ==
    /\ CollectDone
    /\ col.outcome = "returned"
    /\ Len(col.returned) >= 6
    /\ 3 \in svc.rep \cap svc.dir
    /\ 1 \in svc.rep \ svc.dir
    /\ 2 \in svc.dir \ svc.rep

\* C12: when no call fails (and no user limit applies), a paginated enumeration
\* collects the in-order concatenation of the items of every page the remote
\* serves, the pages that follow an empty page carrying a token included.
EveryPageCollected ==
    /\ (DrivesDone /\ col.drive_failAt = 0) =>
         col.returned = Concat(col.drive_pages, Len(col.drive_pages))
    /\ (CollectDone /\ svc.failAt = 0 /\ col.max_users = 0) =>
         EmailsOf(col.returned) = FirstEmails(SumSizes(svc.sizes, Len(svc.sizes)))

MailboxDone == col.phase = "done" /\ col.op = "export_mailbox_permissions"

\* the users of the pages the listing returned to the run
UsersListed == SumSizes(svc.sizes, PagesBeforeFailure(UserPagesServed, svc.failAt))
\* those of the first n listed users that the listing does not report suspended
NotSuspended(n) == Cardinality({k \in 1..n : ~listed_suspended(k)})

\* no record, per-user call or page request beyond the limit max_users > 0
WithinLimit ==
    col.max_users > 0 =>
      /\ Len(col.stats_list) <= col.max_users
      /\ col.user_count <= col.max_users
      /\ col.calls <= 4 * col.max_users
      /\ col.user_count = col.max_users => col.phase = "done"

\* C13 (as claimed): at most max_users records and nothing issued beyond the
\* limit; with max_users = 0 collect_workspace_stats and
\* export_mailbox_permissions process every user the listing returned.
LimitOrEveryUser ==
    col.op \in {"collect_workspace_stats", "export_mailbox_permissions"} =>
      /\ WithinLimit
      /\ (col.phase = "done" /\ col.max_users = 0) =>
           Len(col.returned) = UsersListed

\* C13 (amended): at most max_users records and nothing issued beyond the
\* limit; with max_users = 0 collect_workspace_stats processes every user the
\* listing returned and export_mailbox_permissions every one of them that the
\* listing does not report suspended.
LimitOrEveryActiveUser ==
    /\ col.op \in {"collect_workspace_stats", "export_mailbox_permissions"} =>
         WithinLimit
    /\ (CollectDone /\ col.max_users = 0) =>
         EmailsOf(col.returned) = FirstEmails(UsersListed)
    /\ (MailboxDone /\ col.max_users = 0) =>
         /\ Len(col.returned) = NotSuspended(UsersListed)
         /\ \A k \in 1..UsersListed :
              listed_suspended(k) <=> ~InSeq(primaryEmail(k), EmailsOf(col.returned))

\* a run of export_mailbox_permissions that stopped at the limit with users
\* of the page and further pages left, having skipped no one yet
LimitWitness ==
    /\ MailboxDone
    /\ col.max_users = 2
    /\ Len(col.returned) = 2
    /\ svc.sizes[1] = 10
    /\ Len(svc.sizes) > 1
    /\ col.requests = 1

----------------------------------------------------------------------------
(* Further claims about the resolvers                                      *)

StringKeys == \A i \in 1..Len(report) : report[i].name # NoneKey
Negative(q) == q.mb < 0

\* C14: on a usage record with string keys get_drive_item_count and
\* get_drive_storage return without raising, return exactly 0 when no stage
\* yields a match, and never return a negative value.
ResolversDefaultToZero ==
    /\ (res.op = "get_drive_item_count" /\ StringKeys) =>
         /\ ~res.out.exc
         /\ res.out.value >= 0
         /\ res.out.stage = "default" => res.out.value = 0
    /\ (res.op = "get_drive_storage" /\ StringKeys) =>
         /\ ~res.out.exc
         /\ ~Negative(res.out.value)
         /\ res.out.stage = "default" => IsZero(res.out.value)

\* the report holds, under a name of the list, a number that satisfies Test
HoldsIn(list, Test(_)) ==
    \E k \in 1..Len(list) :
        /\ Reported(list[k])
        /\ IsNumber(ReportedValue(list[k]))
        /\ Test(ReportedValue(list[k]).n)
HoldsIntegerIn(list, Test(_)) ==
    \E k \in 1..Len(list) :
        /\ Reported(list[k])
        /\ IsInteger(ReportedValue(list[k]))
        /\ Test(ReportedValue(list[k]).n)
\* every number of the report satisfies Test
AllNumbers(Test(_)) ==
    \A i \in 1..Len(report) : IsNumber(report[i].value) => Test(report[i].value.n)

DriveStorageKeys == <<"accounts:drive_used_quota_in_mb">> \o storage_params
GmailStorageKeys == <<"accounts:gmail_used_quota_in_mb">> \o gmail_storage_params

\* the resolvers find the positive value that a candidate key holds
PositiveIsFound ==
    /\ (res.op = "get_drive_item_count"
          /\ HoldsIntegerIn(item_count_params, LAMBDA n : n > 0)) =>
         res.out.value > 0
    /\ (res.op = "get_drive_storage" /\ HoldsIn(DriveStorageKeys, LAMBDA n : n > 0)) =>
         Positive(res.out.value)
    /\ (res.op = "get_gmail_statistics"
          /\ HoldsIn(GmailStorageKeys, LAMBDA n : n > 0)) =>
         Positive(res.out.Gmail_Storage_MB)

\* C15: a candidate key present with value zero never ends the resolution: on
\* a record with string keys and no negative value, a positive value under a
\* candidate key of get_drive_item_count, get_drive_storage or the Gmail
\* storage resolution is found and returned.
ZeroNeverEndsResolution ==
    (StringKeys /\ AllNumbers(LAMBDA n : n >= 0)) => PositiveIsFound

\* C16: a value that fails numeric parsing is skipped: on a record with string
\* keys whose numbers are all positive, a number under a candidate key is found
\* and returned whatever unparseable values the other keys hold.
UnparseableIsSkipped ==
    (StringKeys /\ AllNumbers(LAMBDA n : n > 0)) => PositiveIsFound

\* C18: a storage value exceeding one million is divided by 1,048,576 whatever
\* key it was taken from.
LargeValuesConverted ==
    /\ (res.op = "get_drive_storage" /\ ~res.out.exc /\ res.out.source # "") =>
         LET n == ReportedValue(res.out.source).n
         IN  n > ConvertThreshold => res.out.value = bytes_to_mb(n)
    /\ (res.op = "get_gmail_statistics" /\ ~res.out.exc
          /\ res.out.storage_source # "") =>
         LET n == ReportedValue(res.out.storage_source).n
         IN  n > ConvertThreshold => res.out.Gmail_Storage_MB = bytes_to_mb(n)

----------------------------------------------------------------------------
(* Further claims about add_admin_to_shared_drives.py                      *)

\* the position of the first listed permission of the admin, 0 without one
FirstOfAdmin(permissions, admin_email) ==
    IF \E k \in 1..Len(permissions) : MatchesAdmin(permissions[k], admin_email)
    THEN CHOOSE k \in 1..Len(permissions) :
            /\ MatchesAdmin(permissions[k], admin_email)
            /\ \A h \in 1..(k - 1) : ~MatchesAdmin(permissions[h], admin_email)
    ELSE 0

\* the mutating calls a call of add_admin_to_drive is to issue on a drive
\* holding `permissions`
ExpectedCalls(permissions, call) ==
    LET k == FirstOfAdmin(permissions, call.admin_email)
    IN  IF k = 0
        THEN /\ Len(call.issued) = 1
             /\ call.issued[1].op = "create"
             /\ call.issued[1].fileId = call.drive_id
             /\ call.issued[1].emailAddress = call.admin_email
             /\ call.issued[1].role = call.role
        ELSE IF permissions[k].role = call.role
        THEN call.issued = <<>>
        ELSE /\ Len(call.issued) = 1
             /\ call.issued[1].op = "update"
             /\ call.issued[1].fileId = call.drive_id
             /\ call.issued[1].permissionId = permissions[k].id
             /\ call.issued[1].role = call.role

\* C17: when the permission listing succeeds, a call of add_admin_to_drive that
\* is not a dry run issues no mutating call if the first listed permission of
\* the admin (compared case-insensitively) has the target role, exactly one
\* update of that permission if its role differs, and exactly one create for
\* the admin if there is none.
OneCallFromFirstMatch ==
    [][(/\ run.phase = "processing"
        /\ run'.phase = "processing"
        /\ run'.i = run.i + 1
        /\ ~lastCall'.dry_run
        /\ ~lastCall'.listFailed)
       => ExpectedCalls(perms[lastCall'.drive_id], lastCall')]_vars

\* an update was issued on a drive that lists two permissions of the admin
OneCallWitness ==
    /\ lastCall.branch = "update"
    /\ ~lastCall.dry_run
    /\ ~lastCall.listFailed
    /\ Len(lastCall.issued) = 1
    /\ Cardinality({k \in 1..Len(perms[lastCall.drive_id]) :
                      MatchesAdmin(perms[lastCall.drive_id][k], lastCall.admin_email)}) = 2

----------------------------------------------------------------------------
(* The last-resort scans                                                   *)

Marked(name, marker) == name # NoneKey /\ MarkerTable[name][marker]

\* the i-th key of the report passes the three tests of the scan of
\* get_drive_item_count / of get_drive_storage
QualifiesAsCount(i) ==
    /\ \E x \in {"count", "items", "docs"} : Marked(report[i].name, x)
    /\ Marked(report[i].name, "drive")
    /\ IsInteger(report[i].value) /\ report[i].value.n > 0
QualifiesAsStorage(i) ==
    /\ \E x \in {"storage", "quota", "byte"} : Marked(report[i].name, x)
    /\ Marked(report[i].name, "drive")
    /\ IsNumber(report[i].value) /\ report[i].value.n > 0

FirstIndex(Test(_)) ==
    IF \E i \in 1..Len(report) : Test(i)
    THEN CHOOSE i \in 1..Len(report) : Test(i) /\ \A j \in 1..(i - 1) : ~Test(j)
    ELSE 0

IsNoneKey(i) == report[i].name = NoneKey

\* the last-resort scan was reached by the resolver applied last
CountScanReached ==
    /\ res.op = "get_drive_item_count"
    /\ \/ res.out.stage \in {"fallback", "raised"}
       \/ res.out.stage = "default" /\ res.out.value = 0
StorageScanReached ==
    /\ res.op = "get_drive_storage"
    /\ res.out.stage \in {"fallback", "raised", "default"}

\* the resolver returned the value of the q-th key (0: its default)
CountScanReturns(q) ==
    /\ ~res.out.exc
    /\ IF q = 0 THEN res.out.stage = "default" /\ res.out.value = 0
       ELSE /\ res.out.stage = "fallback"
            /\ res.out.source = report[q].name
            /\ res.out.value = report[q].value.n
StorageScanReturns(q) ==
    /\ ~res.out.exc
    /\ IF q = 0 THEN res.out.stage = "default" /\ IsZero(res.out.value)
       ELSE /\ res.out.stage = "fallback"
            /\ res.out.source = report[q].name
            /\ res.out.value = IF Marked(report[q].name, "bytes")
                                  \/ report[q].value.n > ConvertThreshold
                               THEN bytes_to_mb(report[q].value.n)
                               ELSE MB(report[q].value.n)

NoNoneKeyBefore(q) ==
    \A i \in 1..Len(report) : IsNoneKey(i) => (q # 0 /\ q < i)

----------------------------------------------------------------------------
(* The listing loops of add_admin_to_shared_drives.py,                     *)
(* advanced_shared_drive_finder.py, google_shared_drive_assessment.py and  *)
(* Google_Workspace_Assessment.py: one step per iteration of `while True`  *)

ListingFunctions ==
    {"get_all_shared_drives", "get_shared_drives_standard",
     "export_shared_drives", "export_groups"}

\* The listings the remote serves: the drive listings, and one whose first page
\* is empty and still carries a nextPageToken.
Listings == DrivePagings \cup { << <<>>, <<"d1">> >> }

\* How the remote answers the list call for one page:
\*   ok                   it returns the page, with or without the flag
\*   flag_rejected        with useDomainAdminAccess: HttpError 400 naming the
\*                        parameter; without it: the page
\*   plain_fails          without useDomainAdminAccess: HttpError 403; with it:
\*                        the page
\*   rejected_then_fails  with the flag: HttpError 400 naming it; without: 403
\*   both_fail            HttpError 403 either way
\*   crash                an exception that is not an HttpError, either way
PageBehaviours ==
    {"ok", "flag_rejected", "plain_fails", "rejected_then_fails", "both_fail",
     "crash"}

HttpError(status, names_flag) ==
    [kind |-> "HttpError", status |-> status, names_flag |-> names_flag,
     items |-> <<>>, nextPageToken |-> 0]

\* drives().list(pageToken=page_token[, useDomainAdminAccess=True]).execute(),
\* groups().list(pageToken=page_token).execute(): page k carries nextPageToken
\* k+1 unless it is the last (0 is None)
list_page(pages, served, page_token, useDomainAdminAccess) ==
    LET p == IF page_token = 0 THEN 1 ELSE page_token
        b == served[p]
    IN  IF b = "crash"
        THEN [kind |-> "Exception", status |-> 0, names_flag |-> FALSE,
              items |-> <<>>, nextPageToken |-> 0]
        ELSE IF b = "both_fail" THEN HttpError(403, FALSE)
        ELSE IF useDomainAdminAccess /\ b \in {"flag_rejected", "rejected_then_fails"}
        THEN HttpError(400, TRUE)
        ELSE IF ~useDomainAdminAccess /\ b \in {"plain_fails", "rejected_then_fails"}
        THEN HttpError(403, FALSE)
        ELSE [kind |-> "ok", status |-> 200, names_flag |-> FALSE,
              items |-> IF p <= Len(pages) THEN pages[p] ELSE <<>>,
              nextPageToken |-> IF p < Len(pages) THEN p + 1 ELSE 0]

\* the loop is left: by break ("returned"), by an exception the function's own
\* `except Exception` turns into an empty result ("empty"), or by an exception
\* that leaves the function ("raised")
leave(l, outcome) == [l EXCEPT !.phase = "done", !.outcome = outcome]

\* shared_drives.extend(current_drives); page_token = results.get('nextPageToken');
\* if not page_token: break
next_page(l, results) ==
    LET l1 == [l EXCEPT !.collected = @ \o results.items,
                        !.page_token = results.nextPageToken]
    IN  IF results.nextPageToken = 0 THEN leave(l1, "returned") ELSE l1

\* if not current_drives: break; then as next_page
page_or_break(l, results) ==
    IF results.items = <<>> THEN leave(l, "returned") ELSE next_page(l, results)

\* the handler of the retry's HttpError never leaves the loop
retry_failed_continue(l) == [l EXCEPT !.retried = 1]

\* advanced_shared_drive_finder.py lines 97-99: except HttpError as e2: break
retry_failed(l) == leave(l, "returned")

\* add_admin_to_shared_drives.py lines 38-62
get_all_shared_drives_iteration(l) ==
    LET results == list_page(l.pages, l.served, l.page_token, FALSE)
    IN  IF results.kind = "HttpError" THEN leave(l, "returned")
        ELSE IF results.kind = "Exception" THEN leave(l, "raised")
        ELSE page_or_break(l, results)

\* advanced_shared_drive_finder.py lines 55-99 (and 108-110)
get_shared_drives_standard_iteration(l) ==
    LET results == list_page(l.pages, l.served, l.page_token, FALSE)
        retry == list_page(l.pages, l.served, l.page_token, TRUE)
        l1 == [l EXCEPT !.retried = @ + 1]
    IN  IF results.kind = "ok" THEN next_page(l, results)
        ELSE IF results.kind = "Exception" THEN leave(l, "empty")
        ELSE IF retry.kind = "ok" THEN next_page(l1, retry)
        ELSE IF retry.kind = "HttpError" THEN retry_failed(l1)
        ELSE leave(l1, "empty")

\* google_shared_drive_assessment.py lines 115-167 (and 197-199)
export_shared_drives_iteration(l) ==
    LET results == list_page(l.pages, l.served, l.page_token, TRUE)
        retry == list_page(l.pages, l.served, l.page_token, FALSE)
        l1 == [l EXCEPT !.retried = @ + 1]
    IN  IF results.kind = "ok" THEN page_or_break(l, results)
        ELSE IF results.kind = "Exception" THEN leave(l, "empty")
        ELSE IF results.names_flag /\ results.status = 400
        THEN IF retry.kind = "ok" THEN page_or_break(l1, retry)
             ELSE leave(l1, "empty")
        ELSE leave(l, "empty")                                  \* raise

\* Google_Workspace_Assessment.py lines 107-126 (and 152-154)
export_groups_iteration(l) ==
    LET results == list_page(l.pages, l.served, l.page_token, FALSE)
    IN  IF results.kind = "ok" THEN page_or_break(l, results)
        ELSE leave(l, "empty")

\* A process runs one of the functions, against one listing and one way of
\* serving each of its pages; the function is at the top of its loop.
ListingInit ==
    /\ \E fn \in ListingFunctions, pages \in Listings,
          served \in [1..MaxDrivePages -> PageBehaviours] :
         loop = [IdleLoop EXCEPT !.phase = "page", !.fn = fn, !.pages = pages,
                                 !.served = served]
    /\ svc = IdleService /\ col = IdleCollect
    /\ job = IdleJob /\ out = NoOutput
    /\ perms = [d \in Drives |-> <<>>]
    /\ run = IdleRun
    /\ lastCall = NoCall
    /\ granted = [d \in Drives |-> NoGrant]
    /\ report = <<>> /\ res = [op |-> "none"]

GetAllSharedDrivesIteration ==
    /\ loop.phase = "page" /\ loop.fn = "get_all_shared_drives"
    /\ loop' = get_all_shared_drives_iteration(loop)
    /\ UNCHANGED <<svc, col, perms, run, lastCall, granted, report, res, job, out>>

GetSharedDrivesStandardIteration ==
    /\ loop.phase = "page" /\ loop.fn = "get_shared_drives_standard"
    /\ loop' = get_shared_drives_standard_iteration(loop)
    /\ UNCHANGED <<svc, col, perms, run, lastCall, granted, report, res, job, out>>

ExportSharedDrivesIteration ==
    /\ loop.phase = "page" /\ loop.fn = "export_shared_drives"
    /\ loop' = export_shared_drives_iteration(loop)
    /\ UNCHANGED <<svc, col, perms, run, lastCall, granted, report, res, job, out>>

ExportGroupsIteration ==
    /\ loop.phase = "page" /\ loop.fn = "export_groups"
    /\ loop' = export_groups_iteration(loop)
    /\ UNCHANGED <<svc, col, perms, run, lastCall, granted, report, res, job, out>>

\* collect_workspace_stats, as far as its page loop goes
CollectWorkspaceStats ==
    /\ loop.fn = "none"
    /\ CollectStart \/ ListUsers \/ ProcessUser

LoopsInit == ListingInit \/ CollectInit

LoopsNext ==
    \/ GetAllSharedDrivesIteration
    \/ GetSharedDrivesStandardIteration
    \/ ExportSharedDrivesIteration
    \/ ExportGroupsIteration
    \/ CollectWorkspaceStats

\* The program is sequential and every remote call returns or raises: the
\* function that is in its loop always takes its next step.
SpecLoops == LoopsInit /\ [][LoopsNext]_vars /\ WF_vars(LoopsNext)

----------------------------------------------------------------------------
(* The claim about the listing loops                                       *)

LoopLeft == loop.phase = "done" \/ col.phase = "done"

\* C20: each of get_all_shared_drives, get_shared_drives_standard,
\* export_shared_drives, export_groups and collect_workspace_stats eventually
\* leaves its `while True` loop, whatever the finite listing and whichever page
\* requests raise, the retry with the alternative parameters included.
LoopsTerminate == <>LoopLeft

\* a loop is left after two retries with the alternative parameters
LoopsTerminateWitness ==
    /\ loop.phase = "done"
    /\ loop.retried = 2
    /\ Len(loop.collected) = 2

----------------------------------------------------------------------------
(* The claims about the snapshots of the collection runs                   *)

InLoop == col.phase \in {"list", "users"}
CollectRun == col.op = "collect_workspace_stats"
MailboxRun == col.op = "export_mailbox_permissions"

PartialName(K) ==
    (IF MailboxRun THEN "mailbox_permissions_partial_" ELSE "workspace_stats_partial_")
        \o str(K) \o ".csv"

\* the multiples of N the number of accumulated records has reached
MultiplesReached ==
    { K \in 1..Len(col.stats_list) : K % SnapshotEvery = 0 }

\* C21, second part: a partial snapshot named ..._partial_K holds the K records
\* accumulated when it was written (the mailbox exporter's with their lists
\* joined, as it saves them).
PartialHoldsAllRecords ==
    (CollectRun \/ MailboxRun) =>
        \A j \in 1..Len(col.saved) :
            \A K \in 1..Len(col.stats_list) :
                col.saved[j].filename = PartialName(K) =>
                    /\ Len(col.saved[j].data) = K
                    /\ col.saved[j].data
                         = (IF MailboxRun THEN stringified(SubSeq(col.stats_list, 1, K))
                            ELSE SubSeq(col.stats_list, 1, K))

\* C21 (as claimed): while collect_workspace_stats or export_mailbox_permissions
\* is in its loop, for every multiple K of N = 10 that the number of accumulated
\* records has reached, the partial snapshot ..._partial_K has been written, and
\* every partial snapshot holds all the records accumulated when it was written.
SnapshotAtEveryMultiple ==
    /\ ((CollectRun \/ MailboxRun) /\ InLoop) =>
          \A K \in MultiplesReached : SavedAs(PartialName(K)) # {}
    /\ PartialHoldsAllRecords

\* the snapshot is written when a page that is not the last ends on a multiple
SnapshotAtPageEnd ==
    ((CollectRun \/ MailboxRun) /\ col.phase = "list" /\ col.page_token > 1
        /\ Len(col.stats_list) > 0 /\ Len(col.stats_list) % SnapshotEvery = 0)
    => SavedAs(PartialName(Len(col.stats_list))) # {}

SnapshotWritten == InLoop /\ \E K \in MultiplesReached : SavedAs(PartialName(K)) # {}

\* the record collect_workspace_stats accumulates for the k-th listed user
RecordOf(k) == user_workspace_stats[k][directory_of(k, svc.dir)][(k \in svc.rep)]

\* C22: when a users().list request raises with at least one record
\* accumulated, collect_workspace_stats writes workspace_stats_error.csv once,
\* with the records of every user of the pages fetched before the request, in
\* listing order, and returns exactly those records.
ErrorSnapshotKeepsProgress ==
    (CollectDone /\ col.outcome = "error" /\ col.stats_list # <<>>) =>
        LET n == Limited(SumSizes(svc.sizes, svc.failAt - 1), col.max_users)
        IN  /\ col.requests = svc.failAt
            /\ n = Len(col.stats_list)
            /\ col.returned = [k \in 1..n |-> RecordOf(k)]
            /\ Cardinality(SavedAs("workspace_stats_error.csv")) = 1
            /\ col.saved[Len(col.saved)]
                 = [filename |-> "workspace_stats_error.csv", data |-> col.returned]

\* the third page request raises after thirteen or more records
ErrorSnapshotWitness ==
    /\ CollectDone /\ col.outcome = "error"
    /\ svc.failAt = 3
    /\ Len(col.returned) >= 13
    /\ SavedAs("workspace_stats_error.csv") # {}

\* the users processed by a run that meets no failing page request
UsersProcessed == Limited(SumSizes(svc.sizes, UserPagesServed), col.max_users)

\* the final snapshot is not written while the run is in its loop
NoFinalSnapshotInLoop ==
    (CollectRun /\ InLoop) => SavedAs("workspace_stats_complete.csv") = {}

\* the final snapshot is the last file written and holds the returned records,
\* which are the records of the users processed, in processing order
FinalSnapshotHoldsAll ==
    /\ Cardinality(SavedAs("workspace_stats_complete.csv")) = 1
    /\ col.saved[Len(col.saved)]
         = [filename |-> "workspace_stats_complete.csv", data |-> col.returned]

ReturnsUsersProcessed ==
    /\ col.returned = [k \in 1..UsersProcessed |-> RecordOf(k)]
    /\ col.returned = col.stats_list

\* C23 (as claimed): whenever collect_workspace_stats finishes without an
\* exception, workspace_stats_complete.csv has been written exactly once, after
\* the last processed user's record was appended, and holds every accumulated
\* record in processing order, as does the returned table.
FinalSnapshotOnce ==
    /\ NoFinalSnapshotInLoop
    /\ (CollectDone /\ col.outcome = "returned") =>
           FinalSnapshotHoldsAll /\ ReturnsUsersProcessed

\* C23 (amended): the same when at least one record was accumulated; a run that
\* accumulated none returns an empty table and writes no final snapshot.
FinalSnapshotOnceIfAnyRecord ==
    /\ NoFinalSnapshotInLoop
    /\ (CollectDone /\ col.outcome = "returned") =>
           /\ ReturnsUsersProcessed
           /\ col.returned # <<>> => FinalSnapshotHoldsAll
           /\ col.returned = <<>> => col.saved = <<>>

\* a run ended by the user limit in the middle of the second page, after a
\* partial snapshot
FinalSnapshotWitness ==
    /\ CollectDone /\ col.outcome = "returned"
    /\ col.max_users = 10 /\ Len(col.returned) = 10
    /\ svc.sizes[1] = 3
    /\ SavedAs("workspace_stats_complete.csv") # {}

----------------------------------------------------------------------------
(* google_shared_drive_assessment.py: export_shared_drive_storage          *)

MaxStorageDrives == 3   \* rows of the drives table

\* the k-th drive of the domain
drive_row(k) == [Drive_ID |-> "d" \o str(k), Drive_Name |-> "Drive " \o str(k)]
DriveNumber(row) == CHOOSE k \in 1..MaxStorageDrives : drive_row(k) = row

\* The drives tables: the first n drives in listing order, and one table in
\* another order.
DriveTables ==
    { [j \in 1..n |-> drive_row(j)] : n \in 0..MaxStorageDrives }
        \cup { <<drive_row(2), drive_row(1)>> }

\* What the remote answers for one drive:
\*   ok          files().get returns quotaBytesUsed "2097152"; files().list
\*               returns a folder and two documents
\*   zero_quota  quotaBytesUsed "0"; one document
\*   no_quota    no quotaBytesUsed; no files
\*   get_fails   files().get raises HttpError
\*   list_fails  files().list raises HttpError
\*   crash       files().get raises an exception that is not an HttpError
\*               (a transport error)
StorageAnswers == {"ok", "zero_quota", "no_quota", "get_fails", "list_fails", "crash"}

Folder == "application/vnd.google-apps.folder"
Document == "application/vnd.google-apps.document"

\* files().get(fileId=drive_id, ...).execute()
file_metadata_of(answer) ==
    CASE answer = "ok" -> <<[name |-> "quotaBytesUsed", value |-> NumStr(2097152)]>>
      [] answer = "zero_quota" -> <<[name |-> "quotaBytesUsed", value |-> NumStr(0)]>>
      [] OTHER -> <<>>

\* files().list(driveId=drive_id, ...).execute().get('files', []): the mimeTypes
files_of(answer) ==
    CASE answer = "ok" -> <<Folder, Document, Document>>
      [] answer = "zero_quota" -> <<Document>>
      [] OTHER -> <<>>

RECURSIVE count_folders(_)
count_folders(files) ==
    IF files = <<>> THEN 0
    ELSE (IF Head(files) = Folder THEN 1 ELSE 0) + count_folders(Tail(files))

\* lines 352-366: the record of a drive whose two calls returned
drive_storage(drive, file_metadata, files) ==
    LET quota == IF Has(file_metadata, "quotaBytesUsed")
                 THEN Get(file_metadata, "quotaBytesUsed") ELSE IntVal(0)
        total_files == Len(files)
        folder_count == count_folders(files)
    IN  [Drive_ID |-> drive.Drive_ID, Drive_Name |-> drive.Drive_Name,
         Storage_Used_bytes |-> quota,
         Storage_Used_MB |-> IF Has(file_metadata, "quotaBytesUsed") /\ to_bool(quota)
                             THEN bytes_to_mb(to_int(quota).n) ELSE MB(0),
         Total_Files |-> total_files,
         Folder_Count |-> folder_count,
         Document_Count |-> total_files - folder_count]

\* lines 368-381: except HttpError: the placeholder record
placeholder(drive, error) ==
    << [Drive_ID |-> drive.Drive_ID, Drive_Name |-> drive.Drive_Name,
        Storage_Used_bytes |-> IntVal(0), Storage_Used_MB |-> MB(0),
        Total_Files |-> 0, Folder_Count |-> 0, Document_Count |-> 0,
        Error |-> error] >>

\* lines 324-384: the loop over the rows from row j on; storage_data is what
\* has been appended; an exception that is not an HttpError leaves the loop
RECURSIVE storage_loop(_, _, _, _)
storage_loop(drives_df, answers, j, storage_data) ==
    IF j > Len(drives_df) THEN [raised |-> FALSE, storage_data |-> storage_data]
    ELSE LET drive == drives_df[j]
             answer == answers[DriveNumber(drive)]
         IN  IF answer = "crash" THEN [raised |-> TRUE, storage_data |-> storage_data]
             ELSE IF answer \in {"get_fails", "list_fails"}
             THEN storage_loop(drives_df, answers, j + 1,
                     storage_data \o placeholder(drive, "HttpError " \o answer))
             ELSE storage_loop(drives_df, answers, j + 1,
                     Append(storage_data,
                            drive_storage(drive, file_metadata_of(answer),
                                          files_of(answer))))

\* export_shared_drive_storage(drives_df); `listed` is the table
\* export_shared_drives returns when it is asked for
export_shared_drive_storage(drives_df, listed, answers) ==
    LET table == IF drives_df = <<>> THEN listed ELSE drives_df
        run_loop == storage_loop(table, answers, 1, <<>>)
    IN  IF table = <<>> THEN [df |-> <<>>, csv_path |-> "", saved |-> FALSE]
        ELSE IF run_loop.raised                     \* except Exception
        THEN [df |-> <<>>, csv_path |-> "", saved |-> FALSE]
        ELSE [df |-> run_loop.storage_data,
              csv_path |-> "shared_drive_storage_export.csv", saved |-> TRUE]

StorageJobs ==
    { [fn |-> "export_shared_drive_storage", drives_df |-> t, listed |-> l,
       answers |-> a] :
        t \in DriveTables, l \in {<<>>, <<drive_row(1)>>},
        a \in [1..MaxStorageDrives -> StorageAnswers] }

\* What the remote answers about one user's mailbox: users().get (not ok: the
\* call raises and get_user_details returns {}), the delegates, the forwarding
\* addresses with the auto-forwarding setting (not ok: a call raises and
\* get_forwarding_settings returns []), and the IMAP/POP settings.
UserInfos ==
    { [ok |-> FALSE, suspended |-> FALSE, isAdmin |-> FALSE],
      [ok |-> TRUE, suspended |-> FALSE, isAdmin |-> TRUE],
      [ok |-> TRUE, suspended |-> TRUE, isAdmin |-> FALSE] }
ForwardingAddressLists ==
    { <<>>, <<"fwd@ext.com">>, <<"auto@ext.com", "fwd@ext.com">>, <<"">> }
ForwardingSettings ==
    { [ok |-> ok, forwarding_addresses |-> fa,
       auto_forward |-> [enabled |-> en, emailAddress |-> dest]] :
        ok \in BOOLEAN, fa \in ForwardingAddressLists, en \in BOOLEAN,
        dest \in {"auto@ext.com", ""} }
AccessSettings ==
    { [ok |-> ok, imap |-> [enabled |-> TRUE], pop |-> [accessWindow |-> "allMail"]] :
        ok \in BOOLEAN }

MailboxJobs ==
    { [fn |-> "process_user_mailbox_permissions", user_info |-> u, delegates |-> d,
       forwarding |-> f, access_settings |-> a] :
        u \in UserInfos, d \in {<<>>, <<"boss@corp.com">>},
        f \in ForwardingSettings, a \in AccessSettings }

----------------------------------------------------------------------------
(* Google_Workspace_Assessment.py: export_rooms, export_equipment          *)

MaxResources == 3   \* calendar resources of the listing

\* resource.get('resourceType') of a resource without the field
Absent == "<absent>"

ResourceTypes ==
    {"Conference Room", "Meeting Space", "Room", "Equipment", "room", Absent}

\* the k-th listed resource, of the given type; every second one carries
\* featureInstances
calendar_resource(k, type) ==
    [resourceId |-> "r" \o str(k), resourceName |-> "Resource " \o str(k),
     resourceType |-> type,
     featureInstances |-> IF k % 2 = 1 THEN <<"Projector", "Whiteboard">> ELSE <<>>]

CalendarListings ==
    UNION { { [k \in 1..n |-> calendar_resource(k, types[k])] :
                types \in [1..n -> ResourceTypes] } :
            n \in 0..MaxResources }

\* resource.get(name, '')
get_or_empty(value) == IF value = Absent THEN "" ELSE value

\* ', '.join(features)
RECURSIVE join_features(_)
join_features(features) ==
    IF features = <<>> THEN ""
    ELSE IF Len(features) = 1 THEN features[1]
    ELSE features[1] \o ", " \o join_features(Tail(features))

\* only resources named Equipment are exported as equipment
is_named_equipment(resource) == resource.resourceType = "Equipment"

\* line 337: resource.get('resourceType') in ['Conference Room', 'Meeting Space', 'Room']
is_room(resource) ==
    resource.resourceType \in {"Conference Room", "Meeting Space", "Room"}

\* line 393: resource.get('resourceType') not in ['Conference Room', 'Meeting Space', 'Room']
is_equipment(resource) ==
    resource.resourceType \notin {"Conference Room", "Meeting Space", "Room"}

\* lines 346-355
room_data(resource) ==
    [Resource_ID |-> resource.resourceId, Resource_Name |-> resource.resourceName,
     Email |-> "", Building_ID |-> "", Floor_Name |-> "", Capacity |-> "",
     Resource_Type |-> get_or_empty(resource.resourceType),
     Features |-> join_features(resource.featureInstances)]

\* lines 403-409
equipment_item(resource) ==
    [Resource_ID |-> resource.resourceId, Resource_Name |-> resource.resourceName,
     Email |-> "",
     Resource_Type |-> get_or_empty(resource.resourceType),
     Features |-> join_features(resource.featureInstances)]

\* lines 335-356: the loop over calendar_resources
RECURSIVE rooms_rows(_)
rooms_rows(calendar_resources) ==
    IF calendar_resources = <<>> THEN <<>>
    ELSE (IF is_room(Head(calendar_resources))
          THEN <<room_data(Head(calendar_resources))>> ELSE <<>>)
         \o rooms_rows(Tail(calendar_resources))

\* lines 391-410: the loop over calendar_resources
RECURSIVE equipment_rows(_)
equipment_rows(calendar_resources) ==
    IF calendar_resources = <<>> THEN <<>>
    ELSE (IF is_equipment(Head(calendar_resources))
          THEN <<equipment_item(Head(calendar_resources))>> ELSE <<>>)
         \o equipment_rows(Tail(calendar_resources))

\* export_rooms(); `fails`: resources().calendars().list raises
export_rooms(calendar_resources, fails) ==
    IF fails THEN [df |-> <<>>, csv_path |-> ""]
    ELSE [df |-> rooms_rows(calendar_resources), csv_path |-> "rooms_export.csv"]

\* export_equipment()
export_equipment(calendar_resources, fails) ==
    IF fails THEN [df |-> <<>>, csv_path |-> ""]
    ELSE [df |-> equipment_rows(calendar_resources), csv_path |-> "equipment_export.csv"]

\* the two exports are run against one listing; the call of one of them may raise
ResourceJobs ==
    { [fn |-> "export_resources", calendar_resources |-> l, fails |-> f] :
        l \in CalendarListings, f \in {"none", "export_rooms", "export_equipment"} }

----------------------------------------------------------------------------
(* Google_Workspace_Assessment.py: export_groups (the table),              *)
(* export_group_memberships                                                *)

MaxGroups == 2   \* groups of the listing

\* memberCount of a listed group: <<>> when the field is absent, or <<n>>
MemberCounts == {<<>>, <<0>>, <<2>>}

\* the k-th listed group
listed_group(k, memberCount) ==
    [id |-> "g" \o str(k), email |-> "g" \o str(k) \o "@corp.com",
     name |-> "Group " \o str(k), memberCount |-> memberCount]

GroupListings ==
    UNION { { [k \in 1..n |-> listed_group(k, counts[k])] :
                counts \in [1..n -> MemberCounts] } :
            n \in 0..MaxGroups }

member(k) == [id |-> "m" \o str(k), email |-> "m" \o str(k) \o "@corp.com"]

\* one answer of members().list: a page of members, or an exception
members_page(members) == [raises |-> "none", members |-> members]

members_raise(exception) == [raises |-> exception, members |-> <<>>]

\* What members().list answers for one group, page after page; every page but
\* the last has a nextPageToken. "Exception" is an exception that is not an
\* HttpError.
MemberAnswers ==
    { << members_page(<<member(1), member(2)>>) >>,
      << members_page(<<member(1)>>), members_page(<<member(2)>>) >>,
      << members_page(<<>>) >>,
      << members_raise("HttpError") >>,
      << members_page(<<member(1)>>), members_raise("HttpError") >>,
      << members_raise("Exception") >> }

\* lines 131-145: the row of a group in the table of export_groups
group_data(group) ==
    [Group_ID |-> group.id, Group_Email |-> group.email, Group_Name |-> group.name,
     Member_Count |-> IF group.memberCount = <<>> THEN 0 ELSE group.memberCount[1]]

groups_data(groups) == [k \in 1..Len(groups) |-> group_data(groups[k])]

\* no group is skipped
never_skipped(group) == FALSE

\* line 198: if group['Member Count'] == 0: continue
no_members(group) == group.Member_Count = 0

\* lines 205-228: the page loop of one group, from page p on; calls counts the
\* members().list calls issued
RECURSIVE members_loop(_, _, _, _)
members_loop(pages, p, members, calls) ==
    IF pages[p].raises = "Exception"
    THEN [raised |-> TRUE, members |-> members, calls |-> calls + 1]
    ELSE IF pages[p].raises = "HttpError" \/ pages[p].members = <<>>    \* break
    THEN [raised |-> FALSE, members |-> members, calls |-> calls + 1]
    ELSE IF p = Len(pages)                                  \* if not page_token: break
    THEN [raised |-> FALSE, members |-> members \o pages[p].members, calls |-> calls + 1]
    ELSE members_loop(pages, p + 1, members \o pages[p].members, calls + 1)

\* lines 230-242: the rows of one group
memberships_of(group, members) ==
    [k \in 1..Len(members) |->
        [Group_ID |-> group.Group_ID, Group_Email |-> group.Group_Email,
         Group_Name |-> group.Group_Name,
         Member_ID |-> members[k].id, Member_Email |-> members[k].email]]

\* lines 187-245: the loop over the rows of groups_df from row j on; `called`
\* lists the groupKey of every members().list call
RECURSIVE memberships_loop(_, _, _, _, _)
memberships_loop(groups_df, answers, j, all_memberships, called) ==
    IF j > Len(groups_df)
    THEN [raised |-> FALSE, all_memberships |-> all_memberships, called |-> called,
          reached |-> Len(groups_df)]
    ELSE LET group == groups_df[j]
             fetched == members_loop(answers[j], 1, <<>>, 0)
             called1 == called \o [c \in 1..fetched.calls |-> group.Group_Email]
         IN  IF no_members(group)
             THEN memberships_loop(groups_df, answers, j + 1, all_memberships, called)
             ELSE IF fetched.raised
             THEN [raised |-> TRUE, all_memberships |-> all_memberships,
                   called |-> called1, reached |-> j]
             ELSE memberships_loop(groups_df, answers, j + 1,
                      all_memberships \o memberships_of(group, fetched.members),
                      called1)

\* export_group_memberships(groups_df); `listed` is the table export_groups
\* returns when it is asked for
export_group_memberships(groups_df, listed, answers) ==
    LET table == IF groups_df = <<>> THEN listed ELSE groups_df
        run_loop == memberships_loop(table, answers, 1, <<>>, <<>>)
    IN  IF table = <<>>
        THEN [df |-> <<>>, csv_path |-> "", called |-> <<>>, reached |-> 0]
        ELSE IF run_loop.raised                     \* except Exception
        THEN [df |-> <<>>, csv_path |-> "", called |-> run_loop.called,
              reached |-> run_loop.reached]
        ELSE [df |-> run_loop.all_memberships,
              csv_path |-> "group_memberships_export.csv",
              called |-> run_loop.called, reached |-> run_loop.reached]

GroupJobs ==
    { [fn |-> "export_group_memberships", groups |-> g, answers |-> a] :
        g \in GroupListings, a \in [1..MaxGroups -> MemberAnswers] }

----------------------------------------------------------------------------
(* advanced_shared_drive_finder.py: main, the merge of the discovery methods *)

\* a drive as a discovery method returns it; id is Absent when the record has
\* no id
found_drive(id, name) == [id |-> id, name |-> name]

\* What one discovery method can return: the same drive under the name it had
\* before and after a rename, a second drive, a record without id.
FoundLists ==
    LET A == found_drive("d1", "Alpha")
        A2 == found_drive("d1", "alpha team")
        B == found_drive("d2", "Beta")
        N == found_drive(Absent, "Gamma")
    IN  { <<>>, <<A>>, <<A2>>, <<B>>, <<A, B>>, <<B, A2>>, <<N>>, <<N, A>>, <<A, A2>> }

\* the names above in the order of name.lower()
NamesByLower == <<"Alpha", "alpha team", "Beta", "Gamma">>

lower_rank(name) == CHOOSE r \in 1..Len(NamesByLower) : NamesByLower[r] = name

\* every id counts as new
never_found(all_drives, drive_id) == FALSE

\* drive_id in all_drives
already_found(all_drives, drive_id) ==
    \E i \in 1..Len(all_drives) : all_drives[i].id = drive_id

\* all_drives[drive_id] = drive, on a dict kept as the sequence of its values in
\* insertion order
dict_set(all_drives, drive) ==
    IF \E i \in 1..Len(all_drives) : all_drives[i].id = drive.id
    THEN [i \in 1..Len(all_drives) |->
             IF all_drives[i].id = drive.id THEN drive ELSE all_drives[i]]
    ELSE Append(all_drives, drive)

\* for drive in drives: drive_id = drive.get('id');
\*     if drive_id and drive_id not in all_drives: all_drives[drive_id] = drive
RECURSIVE merge_drives(_, _, _)
merge_drives(all_drives, drives, i) ==
    IF i > Len(drives) THEN all_drives
    ELSE LET drive_id == drives[i].id
         IN  IF drive_id # Absent /\ drive_id # "" /\ ~already_found(all_drives, drive_id)
             THEN merge_drives(dict_set(all_drives, drives[i]), drives, i + 1)
             ELSE merge_drives(all_drives, drives, i + 1)

\* drives_list.sort(key=lambda x: x.get('name', '').lower()): a stable sort
RECURSIVE sort_by_name(_)
sort_by_name(drives_list) ==
    IF drives_list = <<>> THEN <<>>
    ELSE LET least == CHOOSE i \in 1..Len(drives_list) :
                        \A j \in 1..Len(drives_list) :
                           \/ lower_rank(drives_list[i].name) < lower_rank(drives_list[j].name)
                           \/ /\ lower_rank(drives_list[i].name) = lower_rank(drives_list[j].name)
                              /\ i <= j
             others == [j \in 1..(Len(drives_list) - 1) |->
                           IF j < least THEN drives_list[j] ELSE drives_list[j + 1]]
         IN  <<drives_list[least]>> \o sort_by_name(others)

FinderJobs ==
    { [fn |-> "main", deep_search |-> deep, drives1 |-> l1, drives2 |-> l2,
       drives3 |-> l3, drives4 |-> l4] :
        deep \in BOOLEAN, l1 \in FoundLists, l2 \in FoundLists,
        l3 \in FoundLists, l4 \in FoundLists }

ExportJobs == StorageJobs \cup MailboxJobs \cup ResourceJobs \cup GroupJobs \cup FinderJobs

ExportInit ==
    /\ job \in ExportJobs
    /\ out = NoOutput
    /\ svc = IdleService /\ col = IdleCollect /\ loop = IdleLoop
    /\ perms = [d \in Drives |-> <<>>]
    /\ run = IdleRun
    /\ lastCall = NoCall
    /\ granted = [d \in Drives |-> NoGrant]
    /\ report = <<>> /\ res = [op |-> "none"]

ExportSharedDriveStorage ==
    /\ job.fn = "export_shared_drive_storage"
    /\ out.op = "none"
    /\ out' = [op |-> "export_shared_drive_storage",
               returned |-> export_shared_drive_storage(job.drives_df, job.listed,
                                                        job.answers)]
    /\ UNCHANGED <<job, svc, col, loop, perms, run, lastCall, granted, report, res>>

ProcessUserMailboxPermissions ==
    /\ job.fn = "process_user_mailbox_permissions"
    /\ out.op = "none"
    /\ out' = [op |-> "process_user_mailbox_permissions",
               returned |-> process_user_mailbox_permissions("alice@corp.com",
                                job.user_info, job.delegates, job.forwarding,
                                job.access_settings)]
    /\ UNCHANGED <<job, svc, col, loop, perms, run, lastCall, granted, report, res>>

\* run_all_exports, lines 444-448: export_rooms, then export_equipment
ExportRooms ==
    /\ job.fn = "export_resources"
    /\ out.op = "none"
    /\ out' = [op |-> "export_rooms",
               rooms |-> export_rooms(job.calendar_resources,
                                      job.fails = "export_rooms")]
    /\ UNCHANGED <<job, svc, col, loop, perms, run, lastCall, granted, report, res>>

ExportEquipment ==
    /\ job.fn = "export_resources"
    /\ out.op = "export_rooms"
    /\ out' = [op |-> "export_equipment", rooms |-> out.rooms,
               equipment |-> export_equipment(job.calendar_resources,
                                              job.fails = "export_equipment")]
    /\ UNCHANGED <<job, svc, col, loop, perms, run, lastCall, granted, report, res>>

\* run_all_exports, lines 432-436: export_groups, then
\* export_group_memberships(groups_df)
ExportGroups ==
    /\ job.fn = "export_group_memberships"
    /\ out.op = "none"
    /\ out' = [op |-> "export_groups", groups_df |-> groups_data(job.groups)]
    /\ UNCHANGED <<job, svc, col, loop, perms, run, lastCall, granted, report, res>>

ExportGroupMemberships ==
    /\ job.fn = "export_group_memberships"
    /\ out.op = "export_groups"
    /\ out' = [op |-> "export_group_memberships", groups_df |-> out.groups_df,
               returned |-> export_group_memberships(out.groups_df,
                                groups_data(job.groups), job.answers)]
    /\ UNCHANGED <<job, svc, col, loop, perms, run, lastCall, granted, report, res>>

\* main, lines 377-382: Method 1, the standard API
StandardMethod ==
    /\ job.fn = "main"
    /\ out.op = "none"
    /\ out' = [op |-> "main", merged |-> 1,
               all_drives |-> merge_drives(<<>>, job.drives1, 1)]
    /\ UNCHANGED <<job, svc, col, loop, perms, run, lastCall, granted, report, res>>

\* lines 384-389: Method 2, files in shared drives
FilesMethod ==
    /\ job.fn = "main"
    /\ out.op = "main" /\ out.merged = 1
    /\ out' = [out EXCEPT !.merged = 2,
                          !.all_drives = merge_drives(out.all_drives, job.drives2, 1)]
    /\ UNCHANGED <<job, svc, col, loop, perms, run, lastCall, granted, report, res>>

\* lines 391-399: Method 3, admin reports
AdminReportsMethod ==
    /\ job.fn = "main"
    /\ out.op = "main" /\ out.merged = 2
    /\ out' = [out EXCEPT !.merged = 3,
                          !.all_drives = merge_drives(out.all_drives, job.drives3, 1)]
    /\ UNCHANGED <<job, svc, col, loop, perms, run, lastCall, granted, report, res>>

\* lines 401-407: Method 4, deep search, when args.deep_search
DeepSearchMethod ==
    /\ job.fn = "main"
    /\ out.op = "main" /\ out.merged = 3
    /\ job.deep_search
    /\ out' = [out EXCEPT !.merged = 4,
                          !.all_drives = merge_drives(out.all_drives, job.drives4, 1)]
    /\ UNCHANGED <<job, svc, col, loop, perms, run, lastCall, granted, report, res>>

\* lines 409-423: the final results, sorted by name and saved when any drive
\* was found
FinalResults ==
    /\ job.fn = "main"
    /\ out.op = "main"
    /\ \/ out.merged = 4
       \/ out.merged = 3 /\ ~job.deep_search
    /\ out' = [op |-> "final_results", merged |-> out.merged,
               all_drives |-> out.all_drives,
               drives_list |-> sort_by_name(out.all_drives),
               saved |-> out.all_drives # <<>>]
    /\ UNCHANGED <<job, svc, col, loop, perms, run, lastCall, granted, report, res>>

ExportNext ==
    \/ ExportSharedDriveStorage
    \/ ProcessUserMailboxPermissions
    \/ ExportRooms
    \/ ExportEquipment
    \/ ExportGroups
    \/ ExportGroupMemberships
    \/ StandardMethod
    \/ FilesMethod
    \/ AdminReportsMethod
    \/ DeepSearchMethod
    \/ FinalResults

SpecExport == ExportInit /\ [][ExportNext]_vars

----------------------------------------------------------------------------
(* The claims about the exports                                            *)

StorageDone == out.op = "export_shared_drive_storage"
StorageInput == IF job.drives_df = <<>> THEN job.listed ELSE job.drives_df
AnswerFor(j) == job.answers[DriveNumber(StorageInput[j])]
Fails(j) == AnswerFor(j) \in {"get_fails", "list_fails", "crash"}
RaisesHttpError(j) == AnswerFor(j) \in {"get_fails", "list_fails"}

\* the record of the j-th input drive is what the drive yields on its own
OwnRecord(j) ==
    LET row == StorageInput[j]
    IN  IF Fails(j)
        THEN /\ out.returned.df[j].Drive_ID = row.Drive_ID
             /\ out.returned.df[j].Drive_Name = row.Drive_Name
             /\ out.returned.df[j].Storage_Used_bytes = IntVal(0)
             /\ out.returned.df[j].Storage_Used_MB = MB(0)
             /\ out.returned.df[j].Total_Files = 0
             /\ out.returned.df[j].Folder_Count = 0
             /\ out.returned.df[j].Document_Count = 0
             /\ "Error" \in DOMAIN out.returned.df[j]
        ELSE out.returned.df[j]
               = drive_storage(row, file_metadata_of(AnswerFor(j)), files_of(AnswerFor(j)))

OneRecordPerDrive ==
    /\ Len(out.returned.df) = Len(StorageInput)
    /\ \A j \in 1..Len(StorageInput) : OwnRecord(j)

\* C24 (as claimed): export_shared_drive_storage returns one record per drive of
\* its input, in input order; a drive whose files().get or files().list call
\* fails has the placeholder record (zero storage and counts, the error text);
\* every other drive has its own record whatever happens to the other drives.
StorageRecordPerDrive == StorageDone => OneRecordPerDrive

\* the same, for runs in which every failing call raises HttpError
StorageRecordPerDriveOnHttpError ==
    (StorageDone /\ \A j \in 1..Len(StorageInput) : Fails(j) => RaisesHttpError(j))
        => OneRecordPerDrive

\* a run over three drives of which the second one's call raises HttpError
StoragePlaceholderReached ==
    /\ StorageDone
    /\ Len(out.returned.df) = 3
    /\ RaisesHttpError(2) /\ ~Fails(1) /\ ~Fails(3)

----------------------------------------------------------------------------
(* Further claims about get_user_workspace_stats                           *)

StatsOfSuspended == res.op = "get_user_workspace_stats" /\ res.directory = "suspended"

\* C25: the record get_user_workspace_stats returns for a user whose directory
\* entry reports suspended = true has Is_Gmail_Enabled = False, whatever the
\* usage report holds.
SuspendedIsNeverEnabled == StatsOfSuspended => res.out.Is_Gmail_Enabled = FALSE

\* the same, for the runs in which the Gmail statistics are not merged into the
\* record: the reports call fails or returns no parameter
SuspendedStaysDisabledWithoutReport ==
    (StatsOfSuspended /\ (res.reportFailed \/ report = <<>>))
        => res.out.Is_Gmail_Enabled = FALSE

SuspendedWithoutReportReached ==
    StatsOfSuspended /\ res.reportFailed /\ report # <<>>
        /\ res.out.Is_Gmail_Enabled = FALSE

----------------------------------------------------------------------------
(* Further claims about google_mailbox_permissions.py                      *)

\* the records accumulated for users whose directory details report suspended
SuspendedRecords == { j \in 1..Len(col.stats_list) : col.stats_list[j].UserIsSuspended }

\* C26: export_mailbox_permissions holds no record for a user the listing
\* reports suspended and does not count such a user; a user whose directory
\* details report suspended has a record with HasDelegates, HasForwarding,
\* HasIMAPAccess and HasPOPAccess False, and no mail-settings call was issued
\* for it: the calls issued are one users().get per record and the three
\* mail-settings queries for each record that is not of a suspended user.
SuspendedNeverQueried ==
    MailboxRun =>
        /\ col.user_count = Len(col.stats_list)
        /\ \A k \in 1..(MaxUserPages * LargestPage) :
             listed_suspended(k) => ~InSeq(primaryEmail(k), EmailsOf(col.stats_list))
        /\ \A j \in SuspendedRecords :
             /\ ~col.stats_list[j].HasDelegates
             /\ ~col.stats_list[j].HasForwarding
             /\ ~col.stats_list[j].HasIMAPAccess
             /\ ~col.stats_list[j].HasPOPAccess
             /\ col.stats_list[j].DelegateCount = 0
        /\ col.calls = Len(col.stats_list)
                         + 3 * (Len(col.stats_list) - Cardinality(SuspendedRecords))

\* a run that stopped at the limit of ten records after skipping three users
\* the listing reports suspended, with the record of a user (the seventh
\* listed) that only the directory details report suspended
SuspendedWitness ==
    /\ MailboxDone
    /\ col.max_users = 10 /\ Len(col.returned) = 10
    /\ col.returned[10].Email = primaryEmail(13)
    /\ col.returned[6].UserIsSuspended

Occurrences(x, seq) == Cardinality({ i \in 1..Len(seq) : seq[i] = x })

MailboxRecordReturned == out.op = "process_user_mailbox_permissions"

\* C27: in the record process_user_mailbox_permissions returns, ForwardingEnabled
\* implies HasForwarding and that the auto-forward destination is one of
\* ForwardingAddresses; HasForwarding implies that ForwardingAddresses is not
\* empty or ForwardingEnabled; and the destination is in ForwardingAddresses no
\* more often than the remote lists it, once if it lists it not at all.
ForwardingConsistent ==
    MailboxRecordReturned =>
        LET d == out.returned.data
            addresses == d.ForwardingAddresses.items
            listed == job.forwarding.forwarding_addresses
        IN  /\ d.ForwardingEnabled =>
                 /\ d.HasForwarding
                 /\ Occurrences(d.ForwardingDestination, addresses) >= 1
                 /\ Occurrences(d.ForwardingDestination, addresses)
                      = (IF Occurrences(d.ForwardingDestination, listed) = 0 THEN 1
                         ELSE Occurrences(d.ForwardingDestination, listed))
            /\ d.HasForwarding => (addresses # <<>> \/ d.ForwardingEnabled)
            /\ ~d.ForwardingEnabled => addresses \in {<<>>, listed}

\* auto-forwarding is enabled to a destination the remote already lists
ForwardingWitness ==
    /\ MailboxRecordReturned
    /\ out.returned.data.ForwardingEnabled
    /\ out.returned.data.ForwardingDestination = "auto@ext.com"
    /\ out.returned.data.ForwardingAddresses.items = <<"auto@ext.com", "fwd@ext.com">>

ResourcesExported == out.op = "export_equipment" /\ job.fails = "none"

RowsOf(df, resource) == { i \in 1..Len(df) : df[i].Resource_ID = resource.resourceId }

\* C28: when export_rooms and export_equipment are given the same listing,
\* every listed resource has exactly one row, in the rooms export if its
\* resourceType is 'Conference Room', 'Meeting Space' or 'Room' and in the
\* equipment export otherwise (the type absent included), and the two row counts
\* add up to the number of listed resources.
RoomsEquipmentPartition ==
    ResourcesExported =>
        /\ Len(out.rooms.df) + Len(out.equipment.df) = Len(job.calendar_resources)
        /\ \A k \in 1..Len(job.calendar_resources) :
             LET resource == job.calendar_resources[k]
                 room == resource.resourceType
                            \in {"Conference Room", "Meeting Space", "Room"}
             IN  /\ Cardinality(RowsOf(out.rooms.df, resource)) = (IF room THEN 1 ELSE 0)
                 /\ Cardinality(RowsOf(out.equipment.df, resource))
                      = (IF room THEN 0 ELSE 1)

\* a listing with a room, a resource without resourceType and one of a type
\* spelled differently
PartitionWitness ==
    /\ ResourcesExported
    /\ Len(job.calendar_resources) = 3
    /\ job.calendar_resources[1].resourceType = "Meeting Space"
    /\ job.calendar_resources[2].resourceType = Absent
    /\ job.calendar_resources[3].resourceType = "room"
    /\ Len(out.rooms.df) = 1 /\ Len(out.equipment.df) = 2

MembershipsDone == out.op = "export_group_memberships"

\* the row of the groups table a membership row was computed from
GroupIndex(row) ==
    CHOOSE g \in 1..Len(out.groups_df) : out.groups_df[g].Group_ID = row.Group_ID

\* the rows of the table that the loop reached and that have members to fetch
GroupsWithMembers ==
    { g \in 1..out.returned.reached : out.groups_df[g].Member_Count # 0 }

Merging == out.op \in {"main", "final_results"}

\* what the k-th discovery method returned
FoundBy(k) ==
    IF k = 1 THEN job.drives1 ELSE IF k = 2 THEN job.drives2
    ELSE IF k = 3 THEN job.drives3 ELSE job.drives4

\* the methods that returned a record with this id, among those merged so far
MethodsWith(id) ==
    { k \in 1..out.merged : \E i \in 1..Len(FoundBy(k)) : FoundBy(k)[i].id = id }

EarliestWith(id) == CHOOSE k \in MethodsWith(id) : \A m \in MethodsWith(id) : k <= m

\* C30: after each method is merged, and in the final list, the collection
\* holds each drive id at most once, holds every drive with an id that a merged
\* method returned, and for each id holds a record of the earliest method that
\* returned the id; a later method never replaces it.
MergeKeepsEarliest ==
    Merging =>
        LET all == out.all_drives
        IN  /\ \A i, j \in 1..Len(all) : all[i].id = all[j].id => i = j
            /\ \A k \in 1..out.merged : \A i \in 1..Len(FoundBy(k)) :
                 FoundBy(k)[i].id # Absent =>
                    \E j \in 1..Len(all) : all[j].id = FoundBy(k)[i].id
            /\ \A j \in 1..Len(all) :
                 /\ all[j].id # Absent
                 /\ MethodsWith(all[j].id) # {}
                 /\ \E i \in 1..Len(FoundBy(EarliestWith(all[j].id))) :
                       FoundBy(EarliestWith(all[j].id))[i] = all[j]
            /\ out.op = "final_results" =>
                 /\ Len(out.drives_list) = Len(all)
                 /\ \A j \in 1..Len(all) :
                      \E i \in 1..Len(all) : out.drives_list[i] = all[j]

\* the standard list found drive d1 as Alpha, the deep search found it under
\* its later name together with a drive no other method found
MergeWitness ==
    /\ out.op = "final_results"
    /\ out.merged = 4
    /\ job.drives1 = <<found_drive("d1", "Alpha")>>
    /\ job.drives4 = <<found_drive("d2", "Beta"), found_drive("d1", "alpha team")>>
    /\ Len(out.drives_list) = 2

====
